---- MODULE Spec2Model ----
(***************************************************************************)
(* git-bro: the dependency-audit pipeline (dependency-audit.js, held in    *)
(* src/unnamed/part_001) and the CLI action that drives it                 *)
(* (src/src/index.js).                                                     *)
(*                                                                         *)
(* JavaScript strings are sequences of one-character strings, so that      *)
(* split, replace and the semver coercion are computed character by        *)
(* character.  Other JavaScript values are records tagged with their type. *)
(* Time advances by one action per I/O callback: an action holds the       *)
(* callback together with the synchronous code and the promise reactions   *)
(* inside the same function that run before the next I/O callback; the     *)
(* resumption of a caller's await is an action of its own.                 *)
(***************************************************************************)
EXTENDS Integers, Sequences, FiniteSets, TLC

----------------------------------------------------------------------------
(* Bounds of the model *)

\* largest number of dependencies of a mapping handed directly to
\* fetchLatestVersions / fetchVulnerabilities
MaxPkgs == 6

\* largest number of dependencies of a manifest seen by auditDependencies
MaxDeps == 2

\* longest declared version string enumerated for the version comparison
MaxVerLen == 4
MaxReqLen == 4
MaxCommits == 3
MaxInvocations == 2
MaxListed == 6

----------------------------------------------------------------------------
(* Strings *)

Digits == {"0", "1", "2", "3", "4", "5", "6", "7", "8", "9"}

DigitVal(c) ==
  CASE c = "0" -> 0 [] c = "1" -> 1 [] c = "2" -> 2 [] c = "3" -> 3
    [] c = "4" -> 4 [] c = "5" -> 5 [] c = "6" -> 6 [] c = "7" -> 7
    [] c = "8" -> 8 [] c = "9" -> 9

\* all strings over alphabet of length at most n
StringsUpTo(alphabet, n) == UNION {[1..k -> alphabet] : k \in 0..n}

\* s.replace(/[^0-9.]/g, ""): keep the digits and the dots
RECURSIVE StripNonNumeric(_)
StripNonNumeric(s) ==
  IF s = <<>> THEN <<>>
  ELSE IF Head(s) \in Digits \cup {"."}
       THEN <<Head(s)>> \o StripNonNumeric(Tail(s))
       ELSE StripNonNumeric(Tail(s))

\* s.indexOf(c, k): position of the first c of s at or after position k,
\* 0 when there is none
RECURSIVE IndexOf(_, _, _)
IndexOf(s, c, k) ==
  IF k > Len(s) THEN 0
  ELSE IF s[k] = c THEN k ELSE IndexOf(s, c, k + 1)

\* s.split(c)
RECURSIVE Split(_, _)
Split(s, c) ==
  LET k == IndexOf(s, c, 1) IN
    IF k = 0 THEN <<s>>
    ELSE <<SubSeq(s, 1, k - 1)>> \o Split(SubSeq(s, k + 1, Len(s)), c)

\* s.replace("/", "-"): a string pattern replaces the first occurrence only
ReplaceFirstSlash(s) ==
  LET k == IndexOf(s, "/", 1) IN
    IF k = 0 THEN s ELSE [s EXCEPT ![k] = "-"]

Whitespace == {" ", "\t", "\r"}

\* s.trim()
RECURSIVE TrimStart(_)
TrimStart(s) ==
  IF s # <<>> /\ Head(s) \in Whitespace THEN TrimStart(Tail(s)) ELSE s

RECURSIVE TrimEnd(_)
TrimEnd(s) ==
  IF s # <<>> /\ s[Len(s)] \in Whitespace
  THEN TrimEnd(SubSeq(s, 1, Len(s) - 1)) ELSE s

Trim(s) == TrimEnd(TrimStart(s))

UpperCase ==
  <<"A", "B", "C", "D", "E", "F", "G", "H", "I", "J", "K", "L", "M", "N", "O", "P",
    "Q", "R", "S", "T", "U", "V", "W", "X", "Y", "Z">>
LowerCase ==
  <<"a", "b", "c", "d", "e", "f", "g", "h", "i", "j", "k", "l", "m", "n", "o", "p",
    "q", "r", "s", "t", "u", "v", "w", "x", "y", "z">>

\* c.toLowerCase()
LowerChar(c) ==
  IF \E k \in DOMAIN UpperCase : UpperCase[k] = c
  THEN LowerCase[CHOOSE k \in DOMAIN UpperCase : UpperCase[k] = c]
  ELSE c

ToLowerCase(s) == [k \in 1..Len(s) |-> LowerChar(s[k])]

\* s.startsWith(prefix)
StartsWith(s, prefix) ==
  Len(s) >= Len(prefix) /\ SubSeq(s, 1, Len(prefix)) = prefix

\* s.includes(part)
Includes(s, part) ==
  \E k \in 1..(Len(s) - Len(part) + 1) : SubSeq(s, k, k + Len(part) - 1) = part

----------------------------------------------------------------------------
(* JavaScript values *)

Str(s) == [t |-> "string", s |-> s]
Num(s) == [t |-> "number", s |-> s]
Undefined == [t |-> "undefined", s |-> <<>>]

\* the literal "unknown" of the failure entry
Unknown == Str(<<"u", "n", "k", "n", "o", "w", "n">>)

----------------------------------------------------------------------------
(* semver, as used by fetchLatestVersions *)

NoVersion == [valid |-> FALSE, major |-> 0, minor |-> 0, patch |-> 0]
Zero == [valid |-> TRUE, major |-> 0, minor |-> 0, patch |-> 0]

\* length of the run of digits of s that starts at position k
RECURSIVE DigitRun(_, _)
DigitRun(s, k) ==
  IF k > Len(s) \/ s[k] \notin Digits THEN 0 ELSE 1 + DigitRun(s, k + 1)

\* position of the first digit of s at or after k, 0 when there is none
RECURSIVE FirstDigit(_, _)
FirstDigit(s, k) ==
  IF k > Len(s) THEN 0
  ELSE IF s[k] \in Digits THEN k ELSE FirstDigit(s, k + 1)

RECURSIVE NumberOf(_)
NumberOf(ds) ==
  IF ds = <<>> THEN 0
  ELSE 10 * NumberOf(SubSeq(ds, 1, Len(ds) - 1)) + DigitVal(ds[Len(ds)])

\* a numeric identifier of a strict version: 0, or digits without leading zero
StrictNumeric(ds) == Len(ds) = 1 \/ ds[1] # "0"

\* semver.coerce(v): the first run of digits is the major version, then up to
\* two ".digits" groups; the coerced text major.minor.patch is then parsed
\* strictly, so a component with a leading zero gives null.  A value that is
\* neither a string nor a number gives null.
Coerce(v) ==
  IF v.t \notin {"string", "number"} THEN NoVersion
  ELSE
    LET s == v.s
        a == FirstDigit(s, 1)
        la == DigitRun(s, a)
        hasB == a > 0 /\ a + la <= Len(s) /\ s[a + la] = "."
                      /\ DigitRun(s, a + la + 1) > 0
        b == a + la + 1
        lb == IF hasB THEN DigitRun(s, b) ELSE 0
        hasC == hasB /\ b + lb <= Len(s) /\ s[b + lb] = "."
                     /\ DigitRun(s, b + lb + 1) > 0
        c == b + lb + 1
        lc == IF hasC THEN DigitRun(s, c) ELSE 0
        major == SubSeq(s, a, a + la - 1)
        minor == IF hasB THEN SubSeq(s, b, b + lb - 1) ELSE <<"0">>
        patch == IF hasC THEN SubSeq(s, c, c + lc - 1) ELSE <<"0">>
    IN IF a = 0 THEN NoVersion
       ELSE IF ~(StrictNumeric(major) /\ StrictNumeric(minor) /\ StrictNumeric(patch))
            THEN NoVersion
            ELSE [valid |-> TRUE, major |-> NumberOf(major),
                  minor |-> NumberOf(minor), patch |-> NumberOf(patch)]

\* semver.lt(a, b) on two versions
SemverLt(a, b) ==
  \/ a.major < b.major
  \/ a.major = b.major /\ a.minor < b.minor
  \/ a.major = b.major /\ a.minor = b.minor /\ a.patch < b.patch

\* semver.coerce(x) || "0.0.0"
CoerceOrZero(v) == IF Coerce(v).valid THEN Coerce(v) ELSE Zero

\* an outdated flag that is also set for the latest version itself
IsOutdatedOrLatest(currentVersion, latestVersion) ==
  ~SemverLt(CoerceOrZero(latestVersion), CoerceOrZero(Str(currentVersion)))

\* the outdated flag of lines 580-589
IsOutdated(currentVersion, latestVersion) ==
  SemverLt(CoerceOrZero(Str(currentVersion)), CoerceOrZero(latestVersion))

----------------------------------------------------------------------------
(* State *)

VARIABLES
  top,            \* the function the caller invoked
  pc,             \* position of the invocation
  repo,           \* the repository identifier argument
  options,        \* the merged options of auditDependencies
  registry,       \* environment: package name -> "latest" dist-tag held by the registry
  advisories,     \* environment: package name -> advisories held by the advisory endpoint
  dependencies,   \* the dependency mapping, in key order: <<[name, version], ...>>
  call,           \* the running batched call: [fn, state, i]
  lookup,         \* per position: "pending", "inflight", "done", "threw" or "failed"
  answer,         \* per key position: the answer its request received
  results,        \* the results object of the running batched call
  requests,       \* number of network requests issued so far
  fetch,          \* fetchFileFromRepo in progress: [loc, attempt]
  fileLog,        \* the requests of the running fetchFileFromRepo call: <<[branch, status], ...>>
  fileContent,    \* the manifest content auditDependencies fetched
  latestVersions, \* auditDependencies: the result of fetchLatestVersions
  vulnerabilities,\* auditDependencies: the result of fetchVulnerabilities
  report,         \* the report files written, in order
  updated,        \* what updateOutdatedPackages announced
  userAnswer,     \* what the user typed at the confirmation question
  rlClosed,       \* whether the module's readline interface is closed
  error,          \* the error caught by auditDependencies (line 1079) or thrown to the caller
  outcome,        \* how the invoked function settled
  cli,            \* what the CLI action did after the call
  commits,        \* the commit list: an argument, or what the repository lists
  returned,       \* the value a directly called function returned
  invocation      \* number of auditDependencies calls of this process, this one included

envVars == <<registry, advisories>>
callVars == <<call, lookup, answer, results>>
callerVars == <<commits, returned, invocation>>
auditVars == <<fetch, fileLog, fileContent, latestVersions, vulnerabilities, report,
               updated, userAnswer, rlClosed, error>>
vars == <<top, pc, repo, options, registry, advisories, dependencies, call, lookup,
          answer, results, requests, fetch, fileLog, fileContent, latestVersions,
          vulnerabilities, report, updated, userAnswer, rlClosed, error, outcome, cli, commits,
          returned, invocation>>

\* const batchSize = 5
batchSize == 5

\* message.length > 80 (line 163)
maxMessageLength == 80

N == Len(dependencies)
Positions == 1..N

NoError == "absent"
RequestFailed == "Request failed"
TypeErrorMessage == "TypeError"
NoSuchDirectory == "ENOENT: no such file or directory"

VersionAnswers == {"fail", "noDistTags", "noLatest", "ok"}
AdvisoryAnswers == {"fail", "noObjects", "ok"}

IdleCall == [fn |-> "none", state |-> "idle", i |-> 0]

----------------------------------------------------------------------------
(* fetchLatestVersions / fetchVulnerabilities *)

\* a slice that is one package too long
SliceOffByOne(n, i) == {p \in 1..n : i < p /\ p <= i + batchSize + 1}

\* packages.slice(i, i + batchSize) of n packages, as key positions
Slice(n, i) == {p \in 1..n : i < p /\ p <= i + batchSize}

\* the group of the running call that starts at offset i
Batch(i) == Slice(N, i)

\* entry of the call: the results object is created and the first group of
\* requests is issued; with no package the loop is skipped and the call returns
BeginCall(fn, deps) ==
  /\ call' = [fn |-> fn, state |-> IF Len(deps) = 0 THEN "returned" ELSE "running",
              i |-> 0]
  /\ lookup' = [p \in 1..Len(deps) |->
                  IF p \in Slice(Len(deps), 0) THEN "inflight" ELSE "pending"]
  /\ answer' = [p \in 1..Len(deps) |-> "none"]
  /\ results' = <<>>
  /\ requests' = requests + Cardinality(Slice(Len(deps), 0))

Recorded(entry) == [throws |-> FALSE, entry |-> entry]
Thrown == [throws |-> TRUE, entry |-> <<>>]

\* the item callback of fetchLatestVersions (lines 573-604) for package p once
\* its request is answered with a: the entry it records, or Thrown when the
\* catch block itself throws (dependencies[pkg].replace on a value that is
\* not a string)
VersionEntry(p, a) ==
  LET declared == dependencies[p].version
      latestVersion == IF a = "ok" THEN registry[dependencies[p].name] ELSE Undefined
      currentVersion == StripNonNumeric(declared.s)
  IN IF declared.t # "string" THEN Thrown
     ELSE IF a = "fail"
     THEN Recorded([current |-> currentVersion, latest |-> Unknown,
                    outdated |-> FALSE, error |-> RequestFailed])
     ELSE IF a = "noDistTags"
     THEN Recorded([current |-> currentVersion, latest |-> Unknown,
                    outdated |-> FALSE, error |-> TypeErrorMessage])
     ELSE Recorded([current |-> currentVersion, latest |-> latestVersion,
                    outdated |-> IsOutdated(currentVersion, latestVersion),
                    error |-> NoError])

\* the item callback without its try/catch: a failed request rejects the item
AdvisoryEntryUncaught(p, a) ==
  IF a = "fail" THEN Thrown
  ELSE Recorded([vulnerabilities |-> Len(advisories[dependencies[p].name]),
                 details |-> advisories[dependencies[p].name], error |-> NoError])

\* the item callback of fetchVulnerabilities (lines 635-659)
AdvisoryEntry(p, a) ==
  LET found == IF a = "ok" THEN advisories[dependencies[p].name] ELSE <<>>
  IN IF a = "fail"
     THEN Recorded([vulnerabilities |-> 0, details |-> <<>>, error |-> RequestFailed])
     ELSE Recorded([vulnerabilities |-> Len(found), details |-> found,
                    error |-> NoError])

\* what follows the item callback of p: Promise.all rejects with the first
\* item that throws and the call rethrows; when the last item of the group is
\* done the loop goes on with the next group, or the call returns
AfterItem(p, item) ==
  LET lk == [lookup EXCEPT ![p] = IF item.throws THEN "threw" ELSE "done"]
      groupDone == \A q \in Batch(call.i) : lk[q] = "done"
      next == Batch(call.i + batchSize)
  IN /\ results' = IF item.throws THEN results ELSE (p :> item.entry) @@ results
     /\ IF call.state # "running"
        THEN /\ lookup' = lk
             /\ UNCHANGED <<call, requests>>
        ELSE IF item.throws
        THEN /\ lookup' = lk
             /\ call' = [call EXCEPT !.state = "rejected"]
             /\ UNCHANGED requests
        ELSE IF ~groupDone
        THEN /\ lookup' = lk
             /\ UNCHANGED <<call, requests>>
        ELSE IF next = {}
        THEN /\ lookup' = lk
             /\ call' = [call EXCEPT !.state = "returned", !.i = call.i + batchSize]
             /\ UNCHANGED requests
        ELSE /\ lookup' = [q \in Positions |-> IF q \in next THEN "inflight" ELSE lk[q]]
             /\ call' = [call EXCEPT !.i = call.i + batchSize]
             /\ requests' = requests + Cardinality(next)

\* the registry answers the request of package p
VersionLookupSettles ==
  /\ call.fn = "versions"
  /\ \E p \in Positions, a \in VersionAnswers :
       /\ lookup[p] = "inflight"
       /\ answer' = [answer EXCEPT ![p] = a]
       /\ AfterItem(p, VersionEntry(p, a))
  /\ UNCHANGED <<top, pc, repo, options, dependencies, outcome, cli>>
  /\ UNCHANGED <<envVars, callerVars, auditVars>>

\* the advisory endpoint answers the request of package p
AdvisoryLookupSettles ==
  /\ call.fn = "vulns"
  /\ \E p \in Positions, a \in AdvisoryAnswers :
       /\ lookup[p] = "inflight"
       /\ answer' = [answer EXCEPT ![p] = a]
       /\ AfterItem(p, AdvisoryEntry(p, a))
  /\ UNCHANGED <<top, pc, repo, options, dependencies, outcome, cli>>
  /\ UNCHANGED <<envVars, callerVars, auditVars>>

----------------------------------------------------------------------------
(* Manifest parsers *)

EmptyDeps == <<>>

\* the content handed to a parser: t is the type of the JavaScript value; for
\* an object, sections names the members it has among "dependencies" and
\* "devDependencies", and dependencies and devDependencies hold them; for a
\* string, text holds the characters, json tells what JSON.parse makes of the
\* text ("invalid" when it throws) and the other fields describe that value
Manifest(sections, deps, dev) ==
  [t |-> "object", json |-> "none", sections |-> sections, dependencies |-> deps,
   devDependencies |-> dev, text |-> <<>>]
Obj(deps) == Manifest({"dependencies"}, deps, EmptyDeps)
Arr == [Manifest({}, EmptyDeps, EmptyDeps) EXCEPT !.t = "array"]
NullContent == [Manifest({}, EmptyDeps, EmptyDeps) EXCEPT !.t = "null"]
NumContent == [Manifest({}, EmptyDeps, EmptyDeps) EXCEPT !.t = "number"]
NoContent == [Manifest({}, EmptyDeps, EmptyDeps) EXCEPT !.t = "undefined"]
Text(chars, json, deps) ==
  [t |-> "string", json |-> json,
   sections |-> IF json = "object" THEN {"dependencies"} ELSE {},
   dependencies |-> deps, devDependencies |-> EmptyDeps, text |-> chars]

\* what JSON.parse(text) yields for a text without surrounding whitespace: the
\* kind of the value, by the text's first and last characters
JsonKind(text) ==
  LET n == Len(text) IN
    IF n = 0 THEN "invalid"
    ELSE IF text = <<"n", "u", "l", "l">> THEN "null"
    ELSE IF text = <<"t", "r", "u", "e">> THEN "true"
    ELSE IF text = <<"f", "a", "l", "s", "e">> THEN "false"
    ELSE IF text = <<"0">> THEN "zero"
    ELSE IF text[1] \in Digits \ {"0"} /\ \A k \in 1..n : text[k] \in Digits
    THEN "number"
    ELSE IF text = <<"\"", "\"">> THEN "emptyString"
    ELSE IF n >= 2 /\ text[1] = "\"" /\ text[n] = "\""
            /\ \A k \in 2..(n - 1) : text[k] # "\""
    THEN "string"
    ELSE IF n >= 2 /\ text[1] = "[" /\ text[n] = "]" THEN "array"
    ELSE IF n >= 2 /\ text[1] = "{" /\ text[n] = "}" THEN "object"
    ELSE "invalid"

\* JSON texts whose value is falsy, so that !packageJson holds (line 803);
\* safeJsonParse turns a text that does not parse into null
FalsyJson == {"invalid", "null", "false", "zero", "emptyString"}

ParseFailure == [ok |-> FALSE, dependencies |-> EmptyDeps]

\* content.trim().startsWith("object")
StartsWithObject(s) ==
  Len(s) >= 6 /\ SubSeq(s, 1, 6) = <<"o", "b", "j", "e", "c", "t">>

\* packageJson.dependencies || {} and packageJson.devDependencies || {}
\* (lines 810-813): a member the value does not have is undefined
Section(content, name) ==
  IF name \in content.sections THEN content[name] ELSE EmptyDeps

\* a parser that counts the development dependencies as dependencies
SectionsTogether(content) ==
  [ok |-> TRUE,
   dependencies |-> Section(content, "dependencies") \o Section(content, "devDependencies"),
   devDependencies |-> Section(content, "devDependencies")]

Sections(content) ==
  [ok |-> TRUE, dependencies |-> Section(content, "dependencies"),
   devDependencies |-> Section(content, "devDependencies")]

\* parsePackageJson (lines 788-817): typeof null and typeof [] are "object"
parsePackageJson(content) ==
  IF content.t \in {"object", "array"} THEN Sections(content)
  ELSE IF content.t = "null" THEN ParseFailure
  ELSE IF content.t = "string"
  THEN IF StartsWithObject(Trim(content.text)) \/ content.json \in FalsyJson
       THEN ParseFailure
       ELSE Sections(content)
  ELSE ParseFailure

Letters ==
  {"a", "b", "c", "d", "e", "f", "g", "h", "i", "j", "k", "l", "m", "n", "o", "p",
   "q", "r", "s", "t", "u", "v", "w", "x", "y", "z"}

\* [a-zA-Z0-9_.-]
NameChars == Letters \cup Digits \cup {"_", ".", "-", "Y", "E", "S", "N", "O"}

\* [=<>!~]
OperatorChars == {"=", "<", ">", "!", "~"}

\* length of the run of characters of class cs that starts at position k of s
RECURSIVE RunOf(_, _, _)
RunOf(s, cs, k) ==
  IF k > Len(s) \/ s[k] \notin cs THEN 0 ELSE 1 + RunOf(s, cs, k + 1)

\* dependencies[name] = version on an object: an existing key keeps its place
Put(deps, name, version) ==
  IF \E k \in 1..Len(deps) : deps[k].name = name
  THEN [k \in 1..Len(deps) |->
          IF deps[k].name = name THEN [name |-> name, version |-> version]
          ELSE deps[k]]
  ELSE Append(deps, [name |-> name, version |-> version])

\* one line of requirements.txt (lines 828-845); the three classes of
\* /^([a-zA-Z0-9_.-]+)([=<>!~]+)([a-zA-Z0-9_.-]+)/ are disjoint from their
\* neighbours, so each group is a maximal run
RequirementLine(deps, line) ==
  LET ln == RunOf(line, NameChars, 1)
      lo == RunOf(line, OperatorChars, ln + 1)
      lv == RunOf(line, NameChars, ln + lo + 1)
      trimmed == Trim(line)
  IN IF trimmed = <<>> \/ Head(trimmed) = "#" THEN deps
     ELSE IF ln > 0 /\ lo > 0 /\ lv > 0
     THEN Put(deps, SubSeq(line, 1, ln),
              Str(SubSeq(line, ln + lo + 1, ln + lo + lv)))
     ELSE Put(deps, trimmed, Str(<<"l", "a", "t", "e", "s", "t">>))

RECURSIVE RequirementLines(_, _)
RequirementLines(deps, lines) ==
  IF lines = <<>> THEN deps
  ELSE RequirementLines(RequirementLine(deps, Head(lines)), Tail(lines))

\* parseRequirementsTxt (lines 824-848): content.split throws on a value that
\* is not a string
parseRequirementsTxt(content) ==
  IF content.t # "string" THEN ParseFailure
  ELSE [ok |-> TRUE,
        dependencies |-> RequirementLines(EmptyDeps, Split(content.text, "\n"))]

----------------------------------------------------------------------------
(* suggestAlternatives *)

express == <<"e", "x", "p", "r", "e", "s", "s">>
lodash == <<"l", "o", "d", "a", "s", "h">>
moment == <<"m", "o", "m", "e", "n", "t">>
jquery == <<"j", "q", "u", "e", "r", "y">>
request == <<"r", "e", "q", "u", "e", "s", "t">>

\* the static table of lines 731-758
AlternativesTable ==
  (express :> <<"fastify", "koa">>) @@ (lodash :> <<"ramda", "lodash-es">>)
  @@ (moment :> <<"date-fns", "dayjs">>) @@ (jquery :> <<"cash-dom", "umbrella">>)
  @@ (request :> <<"axios", "got">>)

\* members that the table, a plain object literal, inherits from
\* Object.prototype; each one is a function
ObjectPrototype ==
  { <<"c", "o", "n", "s", "t", "r", "u", "c", "t", "o", "r">>,
    <<"t", "o", "S", "t", "r", "i", "n", "g">>,
    <<"v", "a", "l", "u", "e", "O", "f">>,
    <<"h", "a", "s", "O", "w", "n", "P", "r", "o", "p", "e", "r", "t", "y">> }

\* alternatives[pkg] (line 762): an own key of the table gives its array, an
\* inherited member gives a function, anything else undefined
Member(name) ==
  IF name \in DOMAIN AlternativesTable
  THEN [found |-> TRUE, array |-> TRUE, items |-> AlternativesTable[name]]
  ELSE IF name \in ObjectPrototype
  THEN [found |-> TRUE, array |-> FALSE, items |-> <<>>]
  ELSE [found |-> FALSE, array |-> FALSE, items |-> <<>>]

\* suggestAlternatives (lines 728-768), as key position -> what the table gave
suggestAlternatives(deps) ==
  [p \in {q \in 1..Len(deps) : Member(deps[q].name).found} |->
     [array |-> Member(deps[p].name).array, items |-> Member(deps[p].name).items]]

----------------------------------------------------------------------------
(* Commit history: filterCommits and formatCommits *)

\* what the repository records for a commit besides its message and files:
\* the login of the linked account ("" when commit.author is null), the
\* author name, the author date in seconds, and the line counts that the
\* details hold
AuthorsOfCommits ==
  << [login |-> "ann", name |-> "Ann", date |-> 90, additions |-> 3, deletions |-> 1],
     [login |-> "", name |-> "bob", date |-> 30, additions |-> 0, deletions |-> 2],
     [login |-> "bob", name |-> "Bob", date |-> 150, additions |-> 5, deletions |-> 0],
     [login |-> "ann", name |-> "Ann", date |-> 60, additions |-> 1, deletions |-> 1],
     [login |-> "", name |-> "cy", date |-> 86410, additions |-> 2, deletions |-> 4] >>

CatalogueIndex(sha) == ((sha - 1) % Len(AuthorsOfCommits)) + 1

\* a commit of the list: details is what the detail request added to it
\* (present = FALSE when there was none; hasFiles = FALSE when the details
\* have no files member)
Commit(sha, message, present, hasFiles, files) ==
  [sha |-> sha, message |-> message,
   author |-> [login |-> AuthorsOfCommits[CatalogueIndex(sha)].login,
               name |-> AuthorsOfCommits[CatalogueIndex(sha)].name],
   date |-> AuthorsOfCommits[CatalogueIndex(sha)].date,
   details |-> [present |-> present, hasFiles |-> hasFiles, files |-> files,
                stats |-> [additions |-> AuthorsOfCommits[CatalogueIndex(sha)].additions,
                           deletions |-> AuthorsOfCommits[CatalogueIndex(sha)].deletions]]]

\* the filter options: an option that is not set is the empty string / false
FilterOptions(file, conflicts, type) ==
  [file |-> file, conflicts |-> conflicts, type |-> type]

\* the callback of the file filter (lines 78-85)
TouchesFile(commit, file) ==
  /\ commit.details.present
  /\ commit.details.hasFiles
  /\ \E k \in DOMAIN commit.details.files :
       Includes(ToLowerCase(commit.details.files[k]), ToLowerCase(file))

ConflictWords ==
  { <<"c", "o", "n", "f", "l", "i", "c", "t">>, <<"r", "e", "s", "o", "l", "v", "e">>, <<"m", "e", "r", "g", "e">>,
    <<"f", "i", "x", " ", "m", "e", "r", "g", "e">>,
    <<"r", "e", "s", "o", "l", "v", "e", " ", "c", "o", "n", "f", "l", "i", "c", "t">> }

\* a conflicts filter that does not ask for the details
MentionsConflictWithoutDetails(commit) ==
  \E word \in ConflictWords : Includes(ToLowerCase(commit.message), word)

\* the callback of the conflicts filter (lines 90-101)
MentionsConflict(commit) ==
  /\ commit.details.present
  /\ \E word \in ConflictWords : Includes(ToLowerCase(commit.message), word)

\* the callback of the type filter (lines 106-109)
HasTypePrefix(commit, type) ==
  StartsWith(ToLowerCase(commit.message), ToLowerCase(type))

\* commits.filter(...) with each of the three callbacks
RECURSIVE FilterByFile(_, _)
FilterByFile(list, file) ==
  IF list = <<>> THEN <<>>
  ELSE (IF TouchesFile(Head(list), file) THEN <<Head(list)>> ELSE <<>>)
         \o FilterByFile(Tail(list), file)

RECURSIVE FilterByConflicts(_)
FilterByConflicts(list) ==
  IF list = <<>> THEN <<>>
  ELSE (IF MentionsConflict(Head(list)) THEN <<Head(list)>> ELSE <<>>)
         \o FilterByConflicts(Tail(list))

RECURSIVE FilterByType(_, _)
FilterByType(list, type) ==
  IF list = <<>> THEN <<>>
  ELSE (IF HasTypePrefix(Head(list), type) THEN <<Head(list)>> ELSE <<>>)
         \o FilterByType(Tail(list), type)

\* a filterCommits whose type filter starts again from the whole list
filterCommitsTypeFromAll(list, opts) ==
  LET byFile == IF opts.file # <<>> THEN FilterByFile(list, opts.file) ELSE list
      byConflicts == IF opts.conflicts THEN FilterByConflicts(byFile) ELSE byFile
  IN IF opts.type # <<>> THEN FilterByType(list, opts.type) ELSE byConflicts

\* filterCommits (lines 73-113): each filter that is set narrows the result
\* of the ones before it
filterCommits(list, opts) ==
  LET byFile == IF opts.file # <<>> THEN FilterByFile(list, opts.file) ELSE list
      byConflicts == IF opts.conflicts THEN FilterByConflicts(byFile) ELSE byFile
  IN IF opts.type # <<>> THEN FilterByType(byConflicts, opts.type) ELSE byConflicts

\* the callback of the file filter in the copy of src/insights.js
\* (lines 2071-2077): file.filename.includes(options.file), no toLowerCase
TouchesFileSameCase(commit, file) ==
  /\ commit.details.present
  /\ commit.details.hasFiles
  /\ \E k \in DOMAIN commit.details.files : Includes(commit.details.files[k], file)

\* the callback of the conflicts filter in that copy (lines 2083-2090)
MentionsConflictWord(commit) ==
  /\ commit.details.present
  /\ \E word \in {<<"c", "o", "n", "f", "l", "i", "c", "t">>, <<"r", "e", "s", "o", "l", "v", "e">>,
                   <<"m", "e", "r", "g", "e">>} :
       Includes(ToLowerCase(commit.message), word)

RECURSIVE FilterByFileSameCase(_, _)
FilterByFileSameCase(list, file) ==
  IF list = <<>> THEN <<>>
  ELSE (IF TouchesFileSameCase(Head(list), file) THEN <<Head(list)>> ELSE <<>>)
         \o FilterByFileSameCase(Tail(list), file)

RECURSIVE FilterByConflictWord(_)
FilterByConflictWord(list) ==
  IF list = <<>> THEN <<>>
  ELSE (IF MentionsConflictWord(Head(list)) THEN <<Head(list)>> ELSE <<>>)
         \o FilterByConflictWord(Tail(list))

\* filterCommits of src/insights.js (lines 2066-2093): a file filter and a
\* conflicts filter, no type filter
filterCommitsInsights(list, opts) ==
  LET byFile == IF opts.file # <<>> THEN FilterByFileSameCase(list, opts.file) ELSE list
  IN IF opts.conflicts THEN FilterByConflictWord(byFile) ELSE byFile

\* commit.commit.message.split('\n')[0]
FirstLine(message) == Split(message, "\n")[1]

\* a classifier that looks for a fix before it looks for a feature
commitTypeFixFirst(message) ==
  LET msg == ToLowerCase(FirstLine(message)) IN
    IF StartsWith(msg, <<"f", "i", "x">>) \/ Includes(msg, <<"b", "u", "g">>) THEN "bugfix"
    ELSE IF StartsWith(msg, <<"f", "e", "a", "t">>)
              \/ Includes(msg, <<"f", "e", "a", "t", "u", "r", "e">>)
    THEN "feature"
    ELSE IF StartsWith(msg, <<"d", "o", "c", "s">>)
              \/ Includes(msg, <<"d", "o", "c", "u", "m", "e", "n", "t", "a", "t", "i", "o", "n">>)
    THEN "docs"
    ELSE IF StartsWith(msg, <<"r", "e", "f", "a", "c", "t", "o", "r">>)
    THEN "refactor"
    ELSE IF StartsWith(msg, <<"t", "e", "s", "t">>) THEN "test"
    ELSE IF Includes(msg, <<"m", "e", "r", "g", "e">>) THEN "merge"
    ELSE "other"

\* the commit type of lines 148-156
commitType(message) ==
  LET msg == ToLowerCase(FirstLine(message)) IN
    IF StartsWith(msg, <<"f", "e", "a", "t">>)
         \/ Includes(msg, <<"f", "e", "a", "t", "u", "r", "e">>)
    THEN "feature"
    ELSE IF StartsWith(msg, <<"f", "i", "x">>) \/ Includes(msg, <<"b", "u", "g">>) THEN "bugfix"
    ELSE IF StartsWith(msg, <<"d", "o", "c", "s">>)
              \/ Includes(msg, <<"d", "o", "c", "u", "m", "e", "n", "t", "a", "t", "i", "o", "n">>)
    THEN "docs"
    ELSE IF StartsWith(msg, <<"r", "e", "f", "a", "c", "t", "o", "r">>)
    THEN "refactor"
    ELSE IF StartsWith(msg, <<"t", "e", "s", "t">>) THEN "test"
    ELSE IF Includes(msg, <<"m", "e", "r", "g", "e">>) THEN "merge"
    ELSE "other"

\* message.length > 80 ? message.substring(0, 80) + '...' : message
DisplayMessage(message) ==
  IF Len(message) > maxMessageLength
  THEN SubSeq(message, 1, maxMessageLength) \o <<".", ".", ".">>
  ELSE message

\* date.toLocaleDateString('en-US', {year, month, day}) (lines 123-127):
\* the day of the instant
FormattedDate(seconds) == seconds \div 86400

\* date.toLocaleTimeString('en-US', {hour, minute}) (lines 128-131): the
\* hour and the minute within the day, without the seconds
FormattedTime(seconds) == (seconds % 86400) \div 60

\* commit.author ? commit.author.login : commit.commit.author.name
AuthorShown(commit) ==
  IF commit.author.login # "" THEN commit.author.login ELSE commit.author.name

\* let stats = null
NoStats == [present |-> FALSE, additions |-> 0, deletions |-> 0, filesChanged |-> 0]

\* the stats of a formatted commit (lines 137-146); the details of a commit
\* always hold its stats member
StatsShown(commit) ==
  IF commit.details.present
  THEN [present |-> TRUE,
        additions |-> commit.details.stats.additions,
        deletions |-> commit.details.stats.deletions,
        filesChanged |-> IF commit.details.hasFiles THEN Len(commit.details.files) ELSE 0]
  ELSE NoStats

\* formatCommits (lines 120-171)
formatCommits(list) ==
  [k \in DOMAIN list |->
     [fullSha |-> list[k].sha,
      date |-> FormattedDate(list[k].date),
      time |-> FormattedTime(list[k].date),
      author |-> AuthorShown(list[k]),
      message |-> DisplayMessage(FirstLine(list[k].message)),
      fullMessage |-> list[k].message,
      stats |-> StatsShown(list[k]),
      commitType |-> commitType(list[k].message)]]

\* new Date(commit.date + ' ' + commit.time) (line 301), in seconds
ParsedDate(date, time) == date * 86400 + time * 60

\* earliest: null, latest: null
NoDate == [set |-> FALSE, at |-> 0]

\* lines 302-307
WidenedDateRange(range, commitDate) ==
  [earliest |-> IF ~range.earliest.set \/ commitDate < range.earliest.at
                THEN [set |-> TRUE, at |-> commitDate] ELSE range.earliest,
   latest |-> IF ~range.latest.set \/ commitDate > range.latest.at
              THEN [set |-> TRUE, at |-> commitDate] ELSE range.latest]

\* the body of commits.forEach (lines 287-308), for every commit in turn
RECURSIVE CommitStatsFrom(_, _)
CommitStatsFrom(list, stats) ==
  IF list = <<>> THEN stats
  ELSE LET commit == Head(list)
           counted == IF commit.commitType \in DOMAIN stats.commitTypes
                      THEN stats.commitTypes[commit.commitType] ELSE 0
       IN CommitStatsFrom(Tail(list),
            [authors |-> stats.authors \cup {commit.author},
             commitTypes |-> (commit.commitType :> counted + 1) @@ stats.commitTypes,
             totalAdditions |-> IF commit.stats.present
                                THEN stats.totalAdditions + commit.stats.additions
                                ELSE stats.totalAdditions,
             totalDeletions |-> IF commit.stats.present
                                THEN stats.totalDeletions + commit.stats.deletions
                                ELSE stats.totalDeletions,
             totalFilesChanged |-> IF commit.stats.present
                                   THEN stats.totalFilesChanged + commit.stats.filesChanged
                                   ELSE stats.totalFilesChanged,
             dateRange |-> WidenedDateRange(stats.dateRange,
                                            ParsedDate(commit.date, commit.time))])

\* generateCommitStats (lines 273-312), of formatted commits
generateCommitStats(list) ==
  LET stats == CommitStatsFrom(list,
                 [authors |-> {}, commitTypes |-> <<>>, totalAdditions |-> 0,
                  totalDeletions |-> 0, totalFilesChanged |-> 0,
                  dateRange |-> [earliest |-> NoDate, latest |-> NoDate]])
  IN [totalCommits |-> Len(list),
      uniqueAuthors |-> Cardinality(stats.authors),
      commitTypes |-> stats.commitTypes,
      totalAdditions |-> stats.totalAdditions,
      totalDeletions |-> stats.totalDeletions,
      totalFilesChanged |-> stats.totalFilesChanged,
      dateRange |-> stats.dateRange]

----------------------------------------------------------------------------
(* auditDependencies *)

PackageJson == "package.json"
RequirementsTxt == "requirements.txt"

\* the locations tried for the manifest (lines 886-934)
Locations(type) ==
  IF type = PackageJson
  THEN <<"package.json", "frontend/package.json", "backend/package.json">>
  ELSE IF type = RequirementsTxt
  THEN <<"requirements.txt", "requirements/requirements.txt", "requirements/base.txt">>
  ELSE <<type>>

\* const [owner, repoName] = repo.split("/"); !owner || !repoName (lines 520-523)
ValidRepo(r) ==
  LET parts == Split(r, "/") IN
    Len(parts) >= 2 /\ parts[1] # <<>> /\ parts[2] # <<>>

NoFetch == [loc |-> 0, attempt |-> "none"]

\* the answers a file request can receive: the file, HTTP 404, any other
\* failure (rate limit, server error, network)
FileStatuses == {"ok", "notFound", "failed"}

\* axios.get(...) for the file on a branch (lines 526-529, 537-540)
Request(branch) == [branch |-> branch, status |-> "pending"]

\* the last request of the log received its answer
Answered(log, status) == [log EXCEPT ![Len(log)].status = status]

\* catch (error) { if (branch !== "master") ... } (lines 532-535): a failed
\* request for the requested branch is followed by one for master
TriesMaster(branch) == fetch.attempt = "branch" /\ branch # "master"

\* the message of the error fetchFileFromRepo throws after a failed request:
\* the wrapped inner error (lines 544-548) or the original one (line 551)
FileError(status) ==
  IF fetch.attempt = "master" THEN "File not found in main or master branch"
  ELSE IF status = "notFound" THEN "Request failed with status code 404"
  ELSE RequestFailed

\* the entries of latestVersions that are outdated (lines 983-988)
OutdatedPackages(latest) ==
  [p \in {q \in DOMAIN latest : latest[q].outdated} |-> latest[p]]

\* the object written to <repo>-audit.json (lines 1041-1063)
AuditReport(latest, vulns) ==
  [path |-> ReplaceFirstSlash(repo),
   repository |-> repo,
   dependencyFile |-> Locations(options.type)[fetch.loc],
   dependencies |-> dependencies,
   outdatedPackages |-> OutdatedPackages(latest),
   vulnerabilitiesApplicable |-> options.type = PackageJson,
   vulnerabilities |-> vulns,
   alternatives |-> suggestAlternatives(dependencies)]

\* a catch block that still saves what it has as a report
AuditCatchSavingReport(message) ==
  /\ error' = message
  /\ rlClosed' = TRUE
  /\ outcome' = "returned"
  /\ pc' = "settled"
  /\ report' = Append(report, [path |-> ReplaceFirstSlash(repo), repository |-> repo])

\* the catch and finally blocks of auditDependencies (lines 1079-1085): the
\* error is printed, the readline interface is closed, the call returns
AuditCatch(message) ==
  /\ error' = message
  /\ rlClosed' = TRUE
  /\ outcome' = "returned"
  /\ pc' = "settled"
  /\ report' = report

\* the end of the try block without an error, and the early return of line 951
AuditReturn ==
  /\ rlClosed' = TRUE
  /\ outcome' = "returned"
  /\ pc' = "settled"
  /\ error' = error

\* lines 937-957: parse the fetched content and start the version lookups
AfterFetch(content) ==
  LET parsed == IF options.type = PackageJson THEN parsePackageJson(content)
                ELSE parseRequirementsTxt(content)
  IN IF options.type \notin {PackageJson, RequirementsTxt}
     THEN /\ AuditCatch("Unsupported dependency file type")
          /\ UNCHANGED <<dependencies, callVars, requests>>
     ELSE IF ~parsed.ok
     THEN /\ AuditCatch(IF options.type = PackageJson
                        THEN "Failed to parse package.json" ELSE TypeErrorMessage)
          /\ UNCHANGED <<dependencies, callVars, requests>>
     ELSE IF Len(parsed.dependencies) = 0
     THEN /\ AuditReturn
          /\ dependencies' = parsed.dependencies
          /\ UNCHANGED <<report, callVars, requests>>
     ELSE /\ dependencies' = parsed.dependencies
          /\ BeginCall("versions", parsed.dependencies)
          /\ pc' = "versions"
          /\ UNCHANGED <<report, rlClosed, outcome, error>>

\* the call of auditDependencies up to its first request: fetchFileFromRepo
\* rejects a malformed identifier before any request, at every location tried
AuditStart ==
  /\ top = "audit" /\ pc = "start"
  /\ IF ValidRepo(repo)
     THEN /\ fetch' = [loc |-> 1, attempt |-> "branch"]
          /\ fileLog' = <<Request(options.branch)>>
          /\ requests' = requests + 1
          /\ pc' = "file"
          /\ UNCHANGED <<dependencies, callVars, fileContent, report, rlClosed,
                         outcome, error>>
     ELSE /\ fetch' = [loc |-> Len(Locations(options.type)), attempt |-> "none"]
          /\ fileLog' = fileLog
          /\ IF options.type \in {PackageJson, RequirementsTxt}
             THEN AuditCatch("Could not find manifest in repository")
             ELSE AuditCatch("Unsupported dependency file type")
          /\ UNCHANGED <<dependencies, callVars, requests, fileContent>>
  /\ UNCHANGED <<top, repo, options, envVars, callerVars, latestVersions, vulnerabilities,
                 updated, userAnswer, cli>>

\* the manifest contents a repository can serve for a manifest type
PackageNames ==
  <<express, <<"a", "b">>, <<"c">>, <<"c", "o", "n", "s", "t", "r", "u", "c", "t", "o", "r">>>>
DeclaredVersions ==
  <<Str(<<"^", "1", ".", "0", ".", "0">>), Str(<<"2", ".", "0", ".", "0">>),
    Num(<<"1">>), Str(<<"1", ".", "0", ".", "0">>)>>
CatalogueDeps ==
  [k \in DOMAIN PackageNames |->
     [name |-> PackageNames[k], version |-> DeclaredVersions[k]]]

\* the sub-sequences of s
RECURSIVE SubSequences(_)
SubSequences(s) ==
  IF s = <<>> THEN {<<>>}
  ELSE LET rest == SubSequences(Tail(s)) IN
         rest \cup {<<Head(s)>> \o r : r \in rest}

Manifests == {m \in SubSequences(CatalogueDeps) : Len(m) <= MaxDeps}

RequirementsTexts ==
  { <<"a", "b", "=", "=", "2", ".", "0", ".", "0", "\n", "#", " ", "c", "\n", "c">>,
    <<"#", "c", "\n", "\n">>,
    <<"c", ">", "=", "1", ".", "0", "\n">> }

\* a devDependencies section: a package that no dependencies section names
DevDeps == <<[name |-> <<"d", "e", "v">>, version |-> Str(<<"1", ".", "0", ".", "0">>)]>>

\* manifests with a devDependencies section, with and without dependencies
ManifestsWithDev ==
  { Manifest({"devDependencies"}, EmptyDeps, DevDeps),
    Manifest({"dependencies", "devDependencies"}, EmptyDeps, DevDeps),
    Manifest({"dependencies", "devDependencies"}, <<CatalogueDeps[2]>>, DevDeps) }

FileContents(type) ==
  IF type = PackageJson
  THEN {Obj(m) : m \in Manifests} \cup ManifestsWithDev
         \cup {Arr, NullContent, NumContent, Text(<<"{", "a">>, "invalid", EmptyDeps)}
  ELSE IF type = RequirementsTxt
  THEN {Text(t, "invalid", EmptyDeps) : t \in RequirementsTexts} \cup {NumContent}
  ELSE {Text(<<"g", "e", "m">>, "invalid", EmptyDeps)}

\* a request of fetchFileFromRepo is answered (lines 526-551) and
\* auditDependencies goes on (lines 888-957)
FileResponse ==
  /\ top = "audit" /\ pc = "file"
  /\ \E status \in FileStatuses :
       IF status = "ok"
       THEN \E content \in FileContents(options.type) :
              /\ fileContent' = content
              /\ fetch' = fetch
              /\ fileLog' = Answered(fileLog, status)
              /\ AfterFetch(content)
       ELSE IF TriesMaster(options.branch)
       THEN /\ fetch' = [fetch EXCEPT !.attempt = "master"]
            /\ fileLog' = Append(Answered(fileLog, status), Request("master"))
            /\ requests' = requests + 1
            /\ UNCHANGED <<pc, dependencies, callVars, fileContent, report,
                           rlClosed, outcome, error>>
       ELSE IF fetch.loc < Len(Locations(options.type))
       THEN /\ fetch' = [loc |-> fetch.loc + 1, attempt |-> "branch"]
            /\ fileLog' = <<Request(options.branch)>>
            /\ requests' = requests + 1
            /\ UNCHANGED <<pc, dependencies, callVars, fileContent, report,
                           rlClosed, outcome, error>>
       ELSE IF options.type \in {PackageJson, RequirementsTxt}
       THEN /\ AuditCatch("Could not find manifest in repository")
            /\ fileLog' = Answered(fileLog, status)
            /\ UNCHANGED <<fetch, dependencies, callVars, requests, fileContent>>
       ELSE /\ AfterFetch(NoContent)
            /\ fileLog' = Answered(fileLog, status)
            /\ UNCHANGED <<fetch, fileContent>>
  /\ UNCHANGED <<top, repo, options, envVars, callerVars, latestVersions, vulnerabilities,
                 updated, userAnswer, cli>>

\* the report is written (lines 1040-1068), then the update step is entered
\* when it applies (lines 1072-1078): updateOutdatedPackages prints the table
\* and asks for confirmation;
\* alts.map(...) of line 1027 throws for an alternatives entry that is not an
\* array; a file name that still holds a "/" lies in a sub-directory of the
\* output directory, which nothing creates (lines 853-858 create the output
\* directory only), so that fs.writeFileSync succeeds only when it exists
WriteReportAndGoOn(latest, vulns) ==
  LET alternatives == suggestAlternatives(dependencies) IN
    IF \E p \in DOMAIN alternatives : ~alternatives[p].array
    THEN AuditCatch(TypeErrorMessage)
    ELSE \E directoryExists \in
              IF Includes(ReplaceFirstSlash(repo), <<"/">>) THEN BOOLEAN ELSE {TRUE} :
           IF ~directoryExists
           THEN AuditCatch(NoSuchDirectory)
           ELSE /\ report' = Append(report, AuditReport(latest, vulns))
                /\ IF options.autoUpdate /\ options.type = PackageJson
                      /\ DOMAIN OutdatedPackages(latest) # {}
                   THEN /\ pc' = "confirm"
                        /\ UNCHANGED <<rlClosed, outcome, error>>
                   ELSE AuditReturn

\* await fetchLatestVersions(...) resumes (lines 955-968)
AuditAfterVersions ==
  /\ top = "audit" /\ pc = "versions"
  /\ call.state \in {"returned", "rejected"}
  /\ IF call.state = "rejected"
     THEN /\ AuditCatch(TypeErrorMessage)
          /\ UNCHANGED <<callVars, requests, latestVersions, vulnerabilities>>
     ELSE /\ latestVersions' = results
          /\ IF options.type = PackageJson
             THEN /\ BeginCall("vulns", dependencies)
                  /\ pc' = "vulns"
                  /\ UNCHANGED <<vulnerabilities, report, rlClosed, outcome, error>>
             ELSE /\ vulnerabilities' = <<>>
                  /\ WriteReportAndGoOn(results, <<>>)
                  /\ UNCHANGED <<callVars, requests>>
  /\ UNCHANGED <<top, repo, options, envVars, callerVars, dependencies,
                 fetch, fileLog, fileContent,
                 updated, userAnswer, cli>>

\* await fetchVulnerabilities(...) resumes (lines 960-1078)
AuditAfterVulnerabilities ==
  /\ top = "audit" /\ pc = "vulns"
  /\ call.state \in {"returned", "rejected"}
  /\ IF call.state = "rejected"
     THEN /\ AuditCatch(TypeErrorMessage)
          /\ UNCHANGED vulnerabilities
     ELSE /\ vulnerabilities' = results
          /\ WriteReportAndGoOn(latestVersions, results)
  /\ UNCHANGED <<top, repo, options, envVars, callerVars, dependencies, callVars, requests,
                 fetch, fileLog, fileContent, latestVersions, updated, userAnswer, cli>>

UserAnswers == {<<"y">>, <<"Y", "E", "S">>, <<"n">>, <<"y", "e", "s", " ">>, <<>>}

\* a confirmation that trims the answer first
confirmWithUserTrimmed(typed) ==
  ToLowerCase(Trim(typed)) \in {<<"y">>, <<"y", "e", "s">>}

\* confirmWithUser (lines 502-508): the answer, lower-cased, is "y" or "yes"
confirmWithUser(typed) ==
  ToLowerCase(typed) \in {<<"y">>, <<"y", "e", "s">>}

\* an update step that saves the report again once the update is applied
UserAnswersQuestionSavingAgain ==
  /\ top = "audit" /\ pc = "confirm"
  /\ ~rlClosed
  /\ \E typed \in UserAnswers :
       /\ userAnswer' = typed
       /\ updated' = IF confirmWithUser(typed) THEN "applied" ELSE "cancelled"
       /\ report' = IF confirmWithUser(typed)
                    THEN Append(report, AuditReport(latestVersions, vulnerabilities))
                    ELSE report
  /\ rlClosed' = TRUE
  /\ outcome' = "returned"
  /\ pc' = "settled"
  /\ error' = error
  /\ UNCHANGED <<top, repo, options, envVars, callerVars, dependencies, callVars, requests,
                 fetch, fileLog, fileContent, latestVersions, vulnerabilities, cli>>

\* the user answers the question of updateOutdatedPackages (lines 705-721);
\* the update itself is simulated
UserAnswersQuestion ==
  /\ top = "audit" /\ pc = "confirm"
  /\ ~rlClosed
  /\ \E typed \in UserAnswers :
       /\ userAnswer' = typed
       /\ updated' = IF confirmWithUser(typed) THEN "applied" ELSE "cancelled"
  /\ AuditReturn
  /\ UNCHANGED <<top, repo, options, envVars, callerVars, dependencies, callVars, requests,
                 fetch, fileLog, fileContent, latestVersions, vulnerabilities, report, cli>>

ReadlineClosed == "readline was closed"

\* rl.question(...) (line 504) on the module's interface after rl.close():
\* depending on the Node.js version the call throws ERR_USE_AFTER_CLOSE,
\* which rejects the promise of confirmWithUser and lands in the catch block of
\* auditDependencies, or the callback is never called and the await of
\* line 705 never resumes
QuestionAfterClose ==
  /\ top = "audit" /\ pc = "confirm"
  /\ rlClosed
  /\ \E throws \in BOOLEAN :
       IF throws
       THEN AuditCatch(ReadlineClosed)
       ELSE /\ pc' = "hung"
            /\ UNCHANGED <<rlClosed, outcome, error, report>>
  /\ UNCHANGED <<top, repo, options, envVars, callerVars, dependencies, callVars,
                 requests, fetch, fileLog, fileContent, latestVersions,
                 vulnerabilities, updated, userAnswer, cli>>

\* the caller calls auditDependencies(repo, options) again after the call
\* before it has settled: the locals of the new call are fresh, the module's
\* readline interface (lines 491-495) is the one the call before left
AuditAgain ==
  /\ top = "audit" /\ pc = "settled"
  /\ invocation < MaxInvocations
  /\ invocation' = invocation + 1
  /\ pc' = "start"
  /\ dependencies' = EmptyDeps
  /\ call' = IdleCall
  /\ lookup' = <<>>
  /\ answer' = <<>>
  /\ results' = <<>>
  /\ requests' = 0
  /\ fetch' = NoFetch
  /\ fileLog' = <<>>
  /\ fileContent' = NoContent
  /\ latestVersions' = <<>>
  /\ vulnerabilities' = <<>>
  /\ report' = <<>>
  /\ updated' = "nothing"
  /\ userAnswer' = userAnswer
  /\ error' = "none"
  /\ outcome' = "pending"
  /\ UNCHANGED <<top, repo, options, envVars, commits, returned, rlClosed, cli>>

\* the CLI action of the audit command after await auditDependencies(...)
\* (src/src/index.js lines 35-43)
CliAfterAudit ==
  /\ top = "audit" /\ pc = "settled"
  /\ cli' = IF outcome = "threw" THEN "exit 1" ELSE "printed success"
  /\ pc' = "exit"
  /\ UNCHANGED <<top, repo, options, envVars, callerVars, dependencies, callVars, requests,
                 auditVars, outcome>>

----------------------------------------------------------------------------
(* Direct calls of fetchFileFromRepo *)

\* fetchFileFromRepo(repo, filePath, branch) is called with the first location
\* of a manifest type as filePath: validation, then the first request
\* (lines 517-530)
CallFetchFile ==
  /\ top = "fetchFile" /\ pc = "start"
  /\ IF ValidRepo(repo)
     THEN /\ fetch' = [loc |-> 1, attempt |-> "branch"]
          /\ fileLog' = <<Request(options.branch)>>
          /\ requests' = requests + 1
          /\ pc' = "file"
          /\ UNCHANGED <<error, outcome>>
     ELSE /\ error' = "Invalid repository format. Use owner/repo format."
          /\ outcome' = "threw"
          /\ pc' = "settled"
          /\ UNCHANGED <<fetch, fileLog, requests>>
  /\ UNCHANGED <<top, repo, options, envVars, commits, returned, invocation,
                 dependencies, callVars, fileContent, latestVersions,
                 vulnerabilities, report, updated, userAnswer, rlClosed, cli>>

\* a request of the call is answered (lines 526-552): the data is returned,
\* master is requested, or the call throws
FileRequestSettles ==
  /\ top = "fetchFile" /\ pc = "file"
  /\ \E status \in FileStatuses :
       IF status = "ok"
       THEN \E content \in FileContents(options.type) :
              /\ returned' = content
              /\ fileLog' = Answered(fileLog, status)
              /\ outcome' = "returned"
              /\ pc' = "settled"
              /\ UNCHANGED <<fetch, requests, error>>
       ELSE IF TriesMaster(options.branch)
       THEN /\ fetch' = [fetch EXCEPT !.attempt = "master"]
            /\ fileLog' = Append(Answered(fileLog, status), Request("master"))
            /\ requests' = requests + 1
            /\ UNCHANGED <<pc, returned, outcome, error>>
       ELSE /\ error' = FileError(status)
            /\ fileLog' = Answered(fileLog, status)
            /\ outcome' = "threw"
            /\ pc' = "settled"
            /\ UNCHANGED <<fetch, requests, returned>>
  /\ UNCHANGED <<top, repo, options, envVars, commits, invocation, dependencies,
                 callVars, fileContent, latestVersions, vulnerabilities, report,
                 updated, userAnswer, rlClosed, cli>>

----------------------------------------------------------------------------
(* Direct calls of the parsers and of suggestAlternatives *)

\* what a call that runs to its end without awaiting leaves alone
calleeFrame ==
  <<top, repo, options, registry, advisories, dependencies, call, lookup, answer,
    results, requests, fetch, fileLog, fileContent, latestVersions, vulnerabilities,
    report, updated, userAnswer, rlClosed, cli, commits, invocation>>

Returns(value) ==
  /\ returned' = value
  /\ outcome' = "returned"
  /\ pc' = "settled"
  /\ error' = error

Throws(message) ==
  /\ error' = message
  /\ outcome' = "threw"
  /\ pc' = "settled"
  /\ returned' = returned

\* parsePackageJson(content) is called with the content in fileContent
CallParsePackageJson ==
  /\ top = "parsePackageJson" /\ pc = "start"
  /\ LET parsed == parsePackageJson(fileContent) IN
       IF parsed.ok
       THEN Returns([dependencies |-> parsed.dependencies,
                     devDependencies |-> parsed.devDependencies])
       ELSE Throws("Failed to parse package.json")
  /\ UNCHANGED calleeFrame

\* parseRequirementsTxt(content) is called with the content in fileContent
CallParseRequirementsTxt ==
  /\ top = "parseRequirementsTxt" /\ pc = "start"
  /\ LET parsed == parseRequirementsTxt(fileContent) IN
       IF parsed.ok
       THEN Returns([dependencies |-> parsed.dependencies])
       ELSE Throws(TypeErrorMessage)
  /\ UNCHANGED calleeFrame

\* suggestAlternatives(dependencies)
CallSuggestAlternatives ==
  /\ top = "suggestAlternatives" /\ pc = "start"
  /\ Returns(suggestAlternatives(dependencies))
  /\ UNCHANGED calleeFrame

----------------------------------------------------------------------------
(* Direct calls of filterCommits and formatCommits *)

\* filterCommits(commits, options)
CallFilterCommits ==
  /\ top = "filterCommits" /\ pc = "start"
  /\ Returns(filterCommits(commits, options))
  /\ UNCHANGED calleeFrame

\* filterCommits(commits, options) of src/insights.js
CallFilterCommitsInsights ==
  /\ top = "filterCommitsInsights" /\ pc = "start"
  /\ Returns(filterCommitsInsights(commits, options))
  /\ UNCHANGED calleeFrame

\* formatCommits(commits)
CallFormatCommits ==
  /\ top = "formatCommits" /\ pc = "start"
  /\ Returns(formatCommits(commits))
  /\ UNCHANGED calleeFrame

\* formatCommits(filteredCommits) and generateCommitStats(formattedCommits)
\* (lines 337-340)
CallGenerateCommitStats ==
  /\ top = "generateCommitStats" /\ pc = "start"
  /\ Returns(generateCommitStats(formatCommits(commits)))
  /\ UNCHANGED calleeFrame

----------------------------------------------------------------------------
(* fetchCommits *)

\* per_page: options.limit || 50
defaultLimit == 50

PerPage(opts) == IF opts.limit = 0 THEN defaultLimit ELSE opts.limit

\* the options of fetchCommits: a limit that is not given is 0
CommitOptions(file, conflicts, showStats, limit) ==
  [file |-> file, conflicts |-> conflicts, type |-> <<>>, showStats |-> showStats,
   limit |-> limit]

\* a condition that forgets the statistics display
WantsDetailsForFilters(opts) == opts.file # <<>> \/ opts.conflicts

\* options.file || options.conflicts || options.showStats (line 43)
WantsDetails(opts) == opts.file # <<>> \/ opts.conflicts \/ opts.showStats

\* a commit as the list response holds it: without details
Listed(commit) == Commit(commit.sha, commit.message, FALSE, FALSE, <<>>)

\* detail requests started five at a time
StartedInBatches(list) == {k \in DOMAIN list : k <= batchSize}

\* response.data.map(async (commit) => ...) runs every callback up to its
\* await: the positions whose detail request is issued at once
StartedTogether(list) == DOMAIN list

\* fetchCommits up to the await of the list request (lines 12-37)
CallFetchCommits ==
  /\ top = "fetchCommits" /\ pc = "start"
  /\ IF ValidRepo(repo)
     THEN /\ call' = [fn |-> "fetchCommits", state |-> "listing", i |-> 0]
          /\ requests' = requests + 1
          /\ pc' = "awaiting"
          /\ UNCHANGED <<error, outcome>>
     ELSE /\ error' = "Invalid repository format. Use owner/repo format."
          /\ outcome' = "threw"
          /\ pc' = "settled"
          /\ UNCHANGED <<call, requests>>
  /\ UNCHANGED <<top, repo, options, envVars, callerVars, dependencies, lookup, answer,
                 results, fetch, fileLog, fileContent, latestVersions, vulnerabilities,
                 report, updated, userAnswer, rlClosed, cli>>

\* the list request settles (lines 37-60): a failure is rethrown (61-64);
\* otherwise every map callback runs up to its await, and without pending
\* detail requests Promise.all resolves with the listed commits
CommitListSettles ==
  /\ call.fn = "fetchCommits" /\ call.state = "listing"
  /\ \E status \in {"ok", "failed"} :
       IF status = "failed"
       THEN /\ call' = [call EXCEPT !.state = "rejected"]
            /\ error' = RequestFailed
            /\ outcome' = "threw"
            /\ pc' = "settled"
            /\ UNCHANGED <<lookup, results, requests, returned>>
       ELSE IF WantsDetails(options) /\ commits # <<>>
       THEN /\ call' = [call EXCEPT !.state = "details"]
            /\ lookup' = [k \in DOMAIN commits |->
                            IF k \in StartedTogether(commits) THEN "inflight" ELSE "pending"]
            /\ requests' = requests + Cardinality(StartedTogether(commits))
            /\ UNCHANGED <<results, returned, error, outcome, pc>>
       ELSE /\ call' = [call EXCEPT !.state = "returned"]
            /\ results' = [k \in DOMAIN commits |-> Listed(commits[k])]
            /\ returned' = [k \in DOMAIN commits |-> Listed(commits[k])]
            /\ outcome' = "returned"
            /\ pc' = "settled"
            /\ UNCHANGED <<lookup, requests, error>>
  /\ UNCHANGED <<top, repo, options, envVars, commits, invocation, dependencies, answer,
                 fetch, fileLog, fileContent, latestVersions, vulnerabilities, report,
                 updated, userAnswer, rlClosed, cli>>

\* the map callback after its await (lines 44-53): the commit with its
\* details, or the commit as listed when the request failed
WithDetails(commit, status) ==
  IF status = "ok" THEN commit ELSE Listed(commit)

\* the detail request of one commit settles; Promise.all resolves when the
\* last one has (lines 41-60)
CommitDetailSettles ==
  /\ call.fn = "fetchCommits" /\ call.state = "details"
  /\ \E k \in DOMAIN commits, status \in {"ok", "failed"} :
       /\ lookup[k] = "inflight"
       /\ LET lk == [lookup EXCEPT ![k] = IF status = "ok" THEN "done" ELSE "failed"]
              all == (k :> WithDetails(commits[k], status)) @@ results
          IN /\ lookup' = lk
             /\ results' = all
             /\ IF \A q \in DOMAIN commits : lk[q] \in {"done", "failed"}
                THEN /\ call' = [call EXCEPT !.state = "returned"]
                     /\ returned' = [q \in DOMAIN commits |-> all[q]]
                     /\ outcome' = "returned"
                     /\ pc' = "settled"
                ELSE UNCHANGED <<call, returned, outcome, pc>>
  /\ UNCHANGED <<top, repo, options, envVars, commits, invocation, dependencies, answer,
                 requests, auditVars, cli>>

----------------------------------------------------------------------------
(* Direct calls of fetchLatestVersions and fetchVulnerabilities *)

BatchedFunctions == {"versions", "vulns"}

\* the caller calls the function with the dependency mapping
CallBatched ==
  /\ top \in BatchedFunctions /\ pc = "start"
  /\ BeginCall(top, dependencies)
  /\ pc' = "awaiting"
  /\ UNCHANGED <<top, repo, options, envVars, callerVars, dependencies, auditVars, outcome, cli>>

\* the caller's await resumes with the result or the rejection
CallerResumes ==
  /\ top \in BatchedFunctions /\ pc = "awaiting"
  /\ call.state \in {"returned", "rejected"}
  /\ outcome' = IF call.state = "returned" THEN "returned" ELSE "threw"
  /\ pc' = "settled"
  /\ UNCHANGED <<top, repo, options, envVars, callerVars, dependencies, callVars, requests,
                 auditVars, cli>>

----------------------------------------------------------------------------
(* Initial states and specifications *)

NoAdvisories == <<>>
OneAdvisory == <<[id |-> 1, title |-> "Prototype Pollution", severity |-> "high"]>>

\* nothing has run yet
Fresh ==
  /\ pc = "start"
  /\ call = IdleCall
  /\ lookup = <<>>
  /\ answer = <<>>
  /\ results = <<>>
  /\ requests = 0
  /\ fetch = NoFetch
  /\ fileLog = <<>>
  /\ latestVersions = <<>>
  /\ vulnerabilities = <<>>
  /\ report = <<>>
  /\ updated = "nothing"
  /\ userAnswer = <<>>
  /\ rlClosed = FALSE
  /\ error = "none"
  /\ outcome = "pending"
  /\ cli = "running"
  /\ returned = Undefined
  /\ invocation = 1

Idle ==
  /\ fileContent = NoContent
  /\ commits = <<>>
  /\ Fresh

RepoIds ==
  { <<"a", "/", "b">>, <<"a", "/", "b", "/", "c">>, <<"a", "b">>, <<"/", "b">>,
    <<"a", "/">> }

ManifestTypes == {PackageJson, RequirementsTxt, "Gemfile"}

Branches == {"main", "master"}

AuditRegistry ==
  (express :> Str(<<"1", ".", "2", ".", "0">>))
  @@ (<<"a", "b">> :> Str(<<"2", ".", "0", ".", "0">>))
  @@ (<<"c">> :> Str(<<"1", ".", "0", ".", "1">>))
  @@ (PackageNames[4] :> Str(<<"1", ".", "0", ".", "0">>))

AuditAdvisories ==
  (express :> OneAdvisory) @@ (<<"a", "b">> :> NoAdvisories) @@ (<<"c">> :> NoAdvisories)
  @@ (PackageNames[4] :> NoAdvisories)

\* auditDependencies(repo, options) is called by the CLI action
InitAudit ==
  /\ top = "audit"
  /\ repo \in RepoIds
  /\ options \in [type : ManifestTypes, branch : Branches, autoUpdate : BOOLEAN]
  /\ registry = AuditRegistry
  /\ advisories = AuditAdvisories
  /\ dependencies = EmptyDeps
  /\ Idle

NextAudit ==
  \/ AuditStart
  \/ FileResponse
  \/ VersionLookupSettles
  \/ AuditAfterVersions
  \/ AdvisoryLookupSettles
  \/ AuditAfterVulnerabilities
  \/ UserAnswersQuestion
  \/ CliAfterAudit

SpecAudit == InitAudit /\ [][NextAudit]_vars

\* a process that calls auditDependencies up to MaxInvocations times, one
\* call after the other
NextAudits ==
  \/ NextAudit
  \/ AuditAgain
  \/ QuestionAfterClose

SpecAudits == InitAudit /\ [][NextAudits]_vars

DigitChars == <<"1", "2", "3", "4", "5", "6", "7", "8", "9">>

\* the name of the package at key position p of a generated mapping
PkgName(p) == <<"p", DigitChars[p]>>

\* the declared versions of the generated mappings, by profile and position
StringVersions ==
  <<Str(<<"^", "1", ".", "0", ".", "0">>), Str(<<"2", ".", "0", ".", "0">>),
    Str(<<"l", "a", "t", "e", "s", "t">>)>>

DeclaredAt(profile, p) ==
  IF profile = 2 /\ p % 3 = 0 THEN Num(<<"1">>)
  ELSE StringVersions[(p % 3) + 1]

LatestAt(p) ==
  IF p % 2 = 0 THEN Str(<<"2", ".", "0", ".", "0">>)
  ELSE Str(<<"1", ".", "0", ".", "0">>)

GeneratedMapping(n, profile) ==
  [p \in 1..n |-> [name |-> PkgName(p), version |-> DeclaredAt(profile, p)]]

\* a caller calls fetchLatestVersions or fetchVulnerabilities with a mapping
\* of up to MaxPkgs dependencies
InitBatch ==
  /\ top \in BatchedFunctions
  /\ \E n \in 0..MaxPkgs, profile \in 1..2 :
       dependencies = GeneratedMapping(n, profile)
  /\ registry = [name \in {PkgName(p) : p \in 1..MaxPkgs} |->
                   LatestAt(CHOOSE p \in 1..MaxPkgs : PkgName(p) = name)]
  /\ advisories = [name \in {PkgName(p) : p \in 1..MaxPkgs} |->
                     IF name = PkgName(2) THEN OneAdvisory ELSE NoAdvisories]
  /\ repo = <<>>
  /\ options = [type |-> PackageJson, branch |-> "main", autoUpdate |-> FALSE]
  /\ Idle

VersionAlphabet == {"0", "1", ".", "^"}

LatestInputs ==
  { Str(<<"1", ".", "0", ".", "0">>), Str(<<"0", ".", "1", ".", "0">>),
    Str(<<"0", ".", "0", ".", "0">>), Str(<<"1", ".", "1">>),
    Str(<<"n", "e", "x", "t">>), Str(<<"0", "1", ".", "0", ".", "0">>) }

\* a caller calls fetchLatestVersions with one dependency, for every declared
\* version string up to MaxVerLen characters and every latest version
InitCompare ==
  /\ top = "versions"
  /\ \E d \in StringsUpTo(VersionAlphabet, MaxVerLen) :
       dependencies = <<[name |-> PkgName(1), version |-> Str(d)]>>
  /\ \E l \in LatestInputs : registry = (PkgName(1) :> l)
  /\ advisories = (PkgName(1) :> NoAdvisories)
  /\ repo = <<>>
  /\ options = [type |-> PackageJson, branch |-> "main", autoUpdate |-> FALSE]
  /\ Idle

\* the characters of a natural number
RECURSIVE ShowNat(_)
ShowNat(n) ==
  IF n < 10 THEN <<CHOOSE c \in Digits : DigitVal(c) = n>>
  ELSE ShowNat(n \div 10) \o <<CHOOSE c \in Digits : DigitVal(c) = n % 10>>

\* X.Y.Z
ShowVersion(v) ==
  ShowNat(v[1]) \o <<".">> \o ShowNat(v[2]) \o <<".">> \o ShowNat(v[3])

RangeOperators == {<<"^">>, <<"~">>, <<">", "=">>, <<"<">>, <<"=">>}
VersionNumbers == {2, 4, 18}
Versions == VersionNumbers \X VersionNumbers \X VersionNumbers

\* a caller calls fetchLatestVersions with one dependency whose declared
\* version is a range operator followed by a version X.Y.Z, for every latest
\* version
InitRange ==
  /\ top = "versions"
  /\ \E op \in RangeOperators, v \in Versions :
       dependencies = <<[name |-> PkgName(1), version |-> Str(op \o ShowVersion(v))]>>
  /\ \E l \in Versions : registry = (PkgName(1) :> Str(ShowVersion(l)))
  /\ advisories = (PkgName(1) :> NoAdvisories)
  /\ repo = <<>>
  /\ options = [type |-> PackageJson, branch |-> "main", autoUpdate |-> FALSE]
  /\ Idle

InitFetch == InitBatch \/ InitCompare \/ InitRange

NextFetch ==
  \/ CallBatched
  \/ VersionLookupSettles
  \/ AdvisoryLookupSettles
  \/ CallerResumes

SpecFetch == InitFetch /\ [][NextFetch]_vars

\* JSON.stringify of a manifest, as characters
Quote(chars) == <<"\"">> \o chars \o <<"\"">>

RECURSIVE StringifyEntries(_)
StringifyEntries(deps) ==
  IF deps = <<>> THEN <<>>
  ELSE Quote(Head(deps).name) \o <<":">>
         \o (IF Head(deps).version.t = "string" THEN Quote(Head(deps).version.s)
             ELSE Head(deps).version.s)
         \o (IF Len(deps) > 1 THEN <<",">> ELSE <<>>)
         \o StringifyEntries(Tail(deps))

StringifySection(content, name, chars) ==
  IF name \in content.sections
  THEN Quote(chars) \o <<":", "{">> \o StringifyEntries(content[name]) \o <<"}">>
  ELSE <<>>

Stringify(content) ==
  <<"{">>
    \o StringifySection(content, "dependencies",
                        <<"d", "e", "p", "e", "n", "d", "e", "n", "c", "i", "e", "s">>)
    \o (IF content.sections = {"dependencies", "devDependencies"} THEN <<",">>
        ELSE <<>>)
    \o StringifySection(content, "devDependencies",
                        <<"d", "e", "v", "D", "e", "p", "e", "n", "d", "e", "n", "c",
                          "i", "e", "s">>)
    \o <<"}">>

\* a manifest as the text of its JSON
ManifestText(m) ==
  [m EXCEPT !.t = "string", !.text = Stringify(m), !.json = JsonKind(Stringify(m))]

\* the manifest objects a caller can hand to parsePackageJson
ManifestObjects ==
  { Manifest(sections,
             IF "dependencies" \in sections THEN deps ELSE EmptyDeps,
             IF "devDependencies" \in sections THEN dev ELSE EmptyDeps) :
      sections \in SUBSET {"dependencies", "devDependencies"},
      deps \in Manifests,
      dev \in {EmptyDeps, <<CatalogueDeps[2]>>} }

\* texts that are not the JSON of an object
JsonTexts ==
  { <<"{", "a">>, <<"n", "u", "l", "l">>, <<"t", "r", "u", "e">>,
    <<"f", "a", "l", "s", "e">>, <<"0">>, <<"4", "2">>, <<"\"", "\"">>,
    <<"\"", "x", "\"">>, <<"[", "1", "]">>, <<>>,
    <<"o", "b", "j", "e", "c", "t", " ", "O", "b", "j", "e", "c", "t">> }

PackageContents ==
  ManifestObjects \cup {ManifestText(m) : m \in ManifestObjects}
    \cup {Text(t, JsonKind(t), EmptyDeps) : t \in JsonTexts}
    \cup {Arr, NullContent, NumContent, NoContent}

\* the arguments and the environment a call does not use
NoAudit ==
  /\ repo = <<>>
  /\ options = [type |-> PackageJson, branch |-> "main", autoUpdate |-> FALSE]
  /\ registry = AuditRegistry
  /\ advisories = AuditAdvisories

\* a caller calls parsePackageJson with a content
InitParsePackageJson ==
  /\ top = "parsePackageJson"
  /\ fileContent \in PackageContents
  /\ dependencies = EmptyDeps
  /\ commits = <<>>
  /\ NoAudit
  /\ Fresh

RequirementAlphabet == {"a", "1", "=", " ", "#", "\n"}

\* "requestslib==2.0.0\n# comment\nflask"
ScenarioRequirements ==
  <<"r", "e", "q", "u", "e", "s", "t", "s", "l", "i", "b", "=", "=", "2", ".", "0",
    ".", "0", "\n", "#", " ", "c", "o", "m", "m", "e", "n", "t", "\n", "f", "l", "a",
    "s", "k">>

\* a caller calls parseRequirementsTxt with every text of up to MaxReqLen
\* characters, with the texts of the audit, or with a value that is no string
InitParseRequirementsTxt ==
  /\ top = "parseRequirementsTxt"
  /\ \E t \in StringsUpTo(RequirementAlphabet, MaxReqLen)
               \cup RequirementsTexts \cup {ScenarioRequirements} :
       fileContent \in {Text(t, JsonKind(t), EmptyDeps), NumContent}
  /\ dependencies = EmptyDeps
  /\ commits = <<>>
  /\ NoAudit
  /\ Fresh

\* names of dependencies: keys of the table, names of members every object
\* has, and other names
DependencyNames ==
  <<express, lodash, moment, jquery, request, <<"a", "b">>,
    <<"c", "o", "n", "s", "t", "r", "u", "c", "t", "o", "r">>,
    <<"t", "o", "S", "t", "r", "i", "n", "g">>>>

\* a caller calls suggestAlternatives with a mapping whose keys are among
\* DependencyNames
InitSuggestAlternatives ==
  /\ top = "suggestAlternatives"
  /\ \E names \in SubSequences(DependencyNames) :
       dependencies =
         [k \in DOMAIN names |->
            [name |-> names[k], version |-> Str(<<"1", ".", "0", ".", "0">>)]]
  /\ fileContent = NoContent
  /\ commits = <<>>
  /\ NoAudit
  /\ Fresh

InitParse ==
  InitParsePackageJson \/ InitParseRequirementsTxt \/ InitSuggestAlternatives

NextParse ==
  \/ CallParsePackageJson
  \/ CallParseRequirementsTxt
  \/ CallSuggestAlternatives

SpecParse == InitParse /\ [][NextParse]_vars

\* the commits a repository can hold
CommitCatalogue ==
  << Commit(1, <<"f", "i", "x", " ", "m", "e", "r", "g", "e", " ", "c", "o", "n", "f", "l", "i", "c", "t">>,
            TRUE, TRUE, <<<<"s", "r", "c", "/", "a", ".", "j", "s">>>>),
     Commit(2, <<"f", "e", "a", "t", ":", " ", "x">>, TRUE, TRUE,
            <<<<"b", ".", "m", "d">>, <<"s", "r", "c", "/", "A", ".", "j", "s">>>>),
     Commit(3, <<"M", "e", "r", "g", "e", " ", "p", "u", "l", "l", " ", "r", "e", "q", "u", "e", "s", "t">>,
            FALSE, FALSE, <<>>),
     Commit(4, <<"f", "i", "x", ":", " ", "b", "u", "g">>, TRUE, FALSE, <<>>),
     Commit(5, <<"F", "i", "x", ":", " ", "R", "e", "s", "o", "l", "v", "e">>, TRUE, TRUE,
            <<<<"l", "i", "b", "/", "c", ".", "j", "s">>>>) >>

\* the lists of up to n elements of the sequence s
RECURSIVE ListsUpTo(_, _)
ListsUpTo(s, n) ==
  IF n = 0 THEN {<<>>}
  ELSE LET shorter == ListsUpTo(s, n - 1) IN
         shorter \cup {Append(l, s[k]) : l \in shorter, k \in DOMAIN s}

FileOptions == {<<>>, <<"a", ".", "j", "s">>, <<"S", "R", "C">>}
TypeOptions == {<<>>, <<"f", "i", "x">>, <<"M", "e", "r", "g", "e">>, <<"f", "e", "a", "t">>}

\* a caller calls one of the two filterCommits with a list of up to MaxCommits commits and
\* every combination of the three options
InitFilterCommits ==
  /\ top \in {"filterCommits", "filterCommitsInsights"}
  /\ commits \in ListsUpTo(CommitCatalogue, MaxCommits)
  /\ \E file \in FileOptions, conflicts \in BOOLEAN, type \in TypeOptions :
       options = FilterOptions(file, conflicts, type)
  /\ repo = <<>>
  /\ registry = AuditRegistry
  /\ advisories = AuditAdvisories
  /\ dependencies = EmptyDeps
  /\ fileContent = NoContent
  /\ Fresh

MessageWords ==
  { <<"f", "e", "a", "t">>,
    <<"f", "e", "a", "t", "u", "r", "e">>,
    <<"f", "i", "x">>,
    <<"b", "u", "g">>,
    <<"d", "o", "c", "s">>,
    <<"d", "o", "c", "u", "m", "e", "n", "t", "a", "t", "i", "o", "n">>,
    <<"r", "e", "f", "a", "c", "t", "o", "r">>,
    <<"t", "e", "s", "t">>,
    <<"m", "e", "r", "g", "e">>,
    <<"x">>,
    <<"F", "i", "x">>,
    <<"a", "d", "d">> }

\* "fix: null pointer in parser"
ScenarioMessage ==
  <<"f", "i", "x", ":", " ", "n", "u", "l", "l", " ", "p", "o", "i", "n", "t", "e", "r", " ",
    "i", "n", " ", "p", "a", "r", "s", "e", "r">>

\* one word, two words, or two lines of one word each
Messages ==
  MessageWords
    \cup {a \o <<" ">> \o b : a \in MessageWords, b \in MessageWords}
    \cup {a \o <<"\n">> \o b : a \in MessageWords, b \in MessageWords}
    \cup {ScenarioMessage}

\* a caller calls formatCommits with one commit of any message, or with a
\* list of commits of the repository
InitFormatCommits ==
  /\ top = "formatCommits"
  /\ \/ \E m \in Messages : commits = <<Commit(1, m, FALSE, FALSE, <<>>)>>
     \/ commits \in ListsUpTo(CommitCatalogue, MaxCommits)
  /\ options = FilterOptions(<<>>, FALSE, <<>>)
  /\ repo = <<>>
  /\ registry = AuditRegistry
  /\ advisories = AuditAdvisories
  /\ dependencies = EmptyDeps
  /\ fileContent = NoContent
  /\ Fresh

\* exploreCommitHistory formats a filtered list and summarises it
InitGenerateCommitStats ==
  /\ top = "generateCommitStats"
  /\ commits \in ListsUpTo(CommitCatalogue, MaxCommits)
  /\ options = FilterOptions(<<>>, FALSE, <<>>)
  /\ repo = <<>>
  /\ registry = AuditRegistry
  /\ advisories = AuditAdvisories
  /\ dependencies = EmptyDeps
  /\ fileContent = NoContent
  /\ Fresh

\* the type tokens of the --type option
TypeTokens ==
  { <<"f", "e", "a", "t">>, <<"f", "i", "x">>, <<"d", "o", "c", "s">>,
    <<"r", "e", "f", "a", "c", "t", "o", "r">>, <<"t", "e", "s", "t">> }

\* a caller calls filterCommits with a type token and one commit of any
\* message
InitFilterByType ==
  /\ top = "filterCommits"
  /\ \E m \in Messages : commits = <<Commit(1, m, FALSE, FALSE, <<>>)>>
  /\ \E type \in TypeTokens : options = FilterOptions(<<>>, FALSE, type)
  /\ repo = <<>>
  /\ registry = AuditRegistry
  /\ advisories = AuditAdvisories
  /\ dependencies = EmptyDeps
  /\ fileContent = NoContent
  /\ Fresh

InitCommits ==
  InitFilterCommits \/ InitFilterByType \/ InitFormatCommits \/ InitGenerateCommitStats

NextCommits ==
  \/ CallFilterCommits
  \/ CallFilterCommitsInsights
  \/ CallGenerateCommitStats
  \/ CallFormatCommits

SpecCommits == InitCommits /\ [][NextCommits]_vars

\* the commits the repository lists, newest first, each with the details
\* its detail request would answer
History(n) ==
  [k \in 1..n |->
     LET c == CommitCatalogue[((k - 1) % Len(CommitCatalogue)) + 1] IN
       Commit(k, c.message, TRUE, c.details.hasFiles, c.details.files)]

\* a caller calls fetchCommits; the list request answers with at most
\* per_page commits
InitFetchCommits ==
  /\ top = "fetchCommits"
  /\ repo \in {<<"a", "/", "b">>, <<"a", "b">>}
  /\ \E file \in {<<>>, <<"a", ".", "j", "s">>}, conflicts \in BOOLEAN, showStats \in BOOLEAN,
        limit \in {0, 2} :
       options = CommitOptions(file, conflicts, showStats, limit)
  /\ \E n \in 0..MaxListed : n <= PerPage(options) /\ commits = History(n)
  /\ registry = AuditRegistry
  /\ advisories = AuditAdvisories
  /\ dependencies = EmptyDeps
  /\ fileContent = NoContent
  /\ Fresh

NextFetchCommits ==
  \/ CallFetchCommits
  \/ CommitListSettles
  \/ CommitDetailSettles

SpecFetchCommits == InitFetchCommits /\ [][NextFetchCommits]_vars

FileBranches == {"main", "master", "dev"}

\* a caller calls fetchFileFromRepo for a manifest of a repository
InitFile ==
  /\ top = "fetchFile"
  /\ repo \in RepoIds
  /\ options \in [type : ManifestTypes, branch : FileBranches, autoUpdate : {FALSE}]
  /\ registry = AuditRegistry
  /\ advisories = AuditAdvisories
  /\ dependencies = EmptyDeps
  /\ Idle

NextFile ==
  \/ CallFetchFile
  \/ FileRequestSettles

SpecFile == InitFile /\ [][NextFile]_vars

Init ==
  InitAudit \/ InitFetch \/ InitFile \/ InitParse \/ InitCommits \/ InitFetchCommits

Next ==
  NextAudits \/ NextFetch \/ NextFile \/ NextParse \/ NextCommits \/ NextFetchCommits

Spec == Init /\ [][Next]_vars

----------------------------------------------------------------------------
(* Properties *)

InFlight == {p \in DOMAIN lookup : lookup[p] = "inflight"}

\* the group of the package at key position p
GroupOf(p) == (p - 1) \div batchSize

\* C1: in fetchLatestVersions and in fetchVulnerabilities at most 5 lookups of
\* a call are in flight at any moment, and no lookup of a later group is
\* started before every lookup of the earlier groups has finished with its
\* entry recorded.
C1_GroupsOfFive ==
  /\ Cardinality(InFlight) <= 5
  /\ \A p \in DOMAIN lookup, q \in DOMAIN lookup :
       (GroupOf(p) < GroupOf(q) /\ lookup[q] # "pending")
         => (lookup[p] = "done" /\ p \in DOMAIN results)

\* a lookup of the second group is in flight after a lookup of the first
\* group failed, for either function
C1_Witness ==
  /\ call.fn \in BatchedFunctions
  /\ \E p \in DOMAIN lookup, q \in DOMAIN lookup :
       /\ GroupOf(p) = 0 /\ answer[p] = "fail"
       /\ GroupOf(q) = 1 /\ lookup[q] = "inflight"

\* C2: in fetchLatestVersions a failed registry lookup gives that package an
\* entry with its error set and outdated = false, every other answered
\* package has the entry of its own lookup, and the call is not aborted.
C2_FailedLookupIsIsolated ==
  (call.fn = "versions" /\ \E p \in Positions : answer[p] = "fail")
    => /\ call.state # "rejected"
       /\ \A p \in Positions :
            answer[p] # "none" =>
              /\ p \in DOMAIN results
              /\ answer[p] = "fail" =>
                   (results[p].error # NoError /\ results[p].outdated = FALSE)
              /\ answer[p] = "ok" =>
                   /\ results[p].error = NoError
                   /\ results[p].latest = registry[dependencies[p].name]

\* C3: after a validation-level or manifest-level failure auditDependencies
\* does not return normally, and the CLI action does not print success.
C3_FailureReachesTheCaller ==
  error # "none" => (outcome # "returned" /\ cli # "printed success")

\* C4: the outdated flag of an answered lookup is true if and only if the
\* stripped declared version and the latest version both parse and the first
\* is strictly less than the second.
C4_OutdatedIffParsedAndLess ==
  \A p \in DOMAIN results :
    (call.fn = "versions" /\ results[p].error = NoError) =>
      (results[p].outdated <=>
         /\ Coerce(Str(results[p].current)).valid
         /\ Coerce(results[p].latest).valid
         /\ SemverLt(Coerce(Str(results[p].current)), Coerce(results[p].latest)))

\* C5: the result of fetchLatestVersions has one entry per dependency, each
\* with a latest version string or an error.
C5_EntryHasLatestOrError ==
  (call.fn = "versions" /\ call.state = "returned") =>
    /\ DOMAIN results = Positions
    /\ \A p \in Positions :
         \/ results[p].error # NoError
         \/ (results[p].latest.t = "string" /\ results[p].latest # Unknown)

\* C6: fetchLatestVersions and fetchVulnerabilities never reject.
C6_BatchedCallsNeverReject ==
  call.state # "rejected" /\ outcome # "threw"

\* the positions whose advisory lookup failed
FailedAdvisoryLookups ==
  {p \in DOMAIN answer : call.fn = "vulns" /\ answer[p] = "fail"}

\* C7 as stated: once the audit is past the vulnerability step the
\* vulnerability result has one entry per parsed dependency, for both
\* manifest kinds.
C7_OneEntryForBothKinds ==
  Len(report) > 0 => DOMAIN vulnerabilities = 1..Len(dependencies)

\* C7: once an audit of a package.json manifest is past the vulnerability step
\* the vulnerability result has one entry per parsed dependency, an entry
\* whose lookup failed has 0 vulnerabilities, no details and an error, and
\* fetchVulnerabilities never rejects; for requirements.txt no advisory
\* request is made and the result is empty.
C7_OneEntryForPackageJson ==
  /\ call.fn = "vulns" => call.state # "rejected"
  /\ call.fn = "vulns" => options.type = PackageJson
  /\ Len(report) > 0 =>
       IF options.type = PackageJson
       THEN /\ DOMAIN vulnerabilities = 1..Len(dependencies)
            /\ report[1].vulnerabilities = vulnerabilities
            /\ \A p \in FailedAdvisoryLookups :
                 /\ vulnerabilities[p].vulnerabilities = 0
                 /\ vulnerabilities[p].details = <<>>
                 /\ vulnerabilities[p].error # NoError
       ELSE vulnerabilities = <<>> /\ ~report[1].vulnerabilitiesApplicable

\* a report of a package.json audit of two dependencies, one of whose
\* advisory lookups failed while the other succeeded
C7_Witness ==
  /\ Len(report) > 0 /\ options.type = PackageJson
  /\ Len(dependencies) = 2
  /\ answer[1] = "fail" /\ answer[2] = "ok"

\* the manifest was fetched and parsed
FetchedAndParsed ==
  /\ fileContent # NoContent
  /\ IF options.type = PackageJson THEN parsePackageJson(fileContent).ok
     ELSE options.type = RequirementsTxt /\ parseRequirementsTxt(fileContent).ok

\* C8: a report file is written only after the manifest was fetched from one
\* of the tried locations and parsed; a run that caught an error wrote none.
C8_ReportOnlyAfterFetchAndParse ==
  /\ Len(report) > 0 => (FetchedAndParsed /\ error = "none")
  /\ error # "none" => report = <<>>

\* a report written after the first location failed on both branches
C8_Witness ==
  /\ Len(report) > 0
  /\ fetch.loc > 1

\* C9: when only individual lookups failed the report is written, and for
\* every package whose version lookup or advisory lookup failed the written
\* report holds that package's error.
C9_ReportHoldsItemErrors ==
  Len(report) > 0 =>
    \A p \in DOMAIN latestVersions :
      latestVersions[p].error # NoError =>
        /\ p \in DOMAIN report[1].outdatedPackages
        /\ report[1].outdatedPackages[p].error # NoError

\* C10: with a malformed repository identifier or an unsupported manifest
\* type, no request has been issued.
C10_ValidationBeforeAnyRequest ==
  (top = "audit"
     /\ (~ValidRepo(repo) \/ options.type \notin {PackageJson, RequirementsTxt}))
    => requests = 0


\* C11: fetchFileFromRepo requests the file on the requested branch first; it
\* makes a second request only after the first one failed with not-found, and
\* that one is for master; when the master request succeeds the call returns
\* the file, when both requests fail the call throws the not-found error; no
\* call issues more than two requests.
C11_FallbackOnlyOnNotFound ==
  top = "fetchFile" =>
    /\ Len(fileLog) <= 2
    /\ Len(fileLog) >= 1 => fileLog[1].branch = options.branch
    /\ Len(fileLog) = 2 =>
         /\ fileLog[1].status = "notFound"
         /\ fileLog[2].branch = "master"
         /\ fileLog[2].status = "ok" => outcome = "returned"
         /\ fileLog[2].status \in {"notFound", "failed"} =>
              outcome = "threw" /\ error = "File not found in main or master branch"


\* a content that is a package manifest object, or the JSON text of one
IsManifest(content) ==
  \/ content.t = "object"
  \/ content.t = "string" /\ JsonKind(content.text) = "object"

\* C12: parsePackageJson returns the dependencies and devDependencies
\* sections of a manifest, each one empty when the manifest does not have it;
\* for every content that is not a manifest object (text that does not parse,
\* or a number, string, boolean, array or null) it throws the parse error and
\* returns nothing.
C12_ManifestOrParseError ==
  (top = "parsePackageJson" /\ pc = "settled") =>
    IF IsManifest(fileContent)
    THEN /\ outcome = "returned"
         /\ returned.dependencies =
              (IF "dependencies" \in fileContent.sections
               THEN fileContent.dependencies ELSE <<>>)
         /\ returned.devDependencies =
              (IF "devDependencies" \in fileContent.sections
               THEN fileContent.devDependencies ELSE <<>>)
    ELSE outcome = "threw" /\ error = "Failed to parse package.json"


\* position after the whitespace that starts at position k of line
SkipBlanks(line, k) == k + RunOf(line, Whitespace \ {"\n"}, k)

\* a line made of a name, one or more operators and a version, each with or
\* without whitespace around it: its name and version, or ok = FALSE
NameOperatorVersion(line) ==
  LET n0 == SkipBlanks(line, 1)
      ln == RunOf(line, NameChars, n0)
      o0 == SkipBlanks(line, n0 + ln)
      lo == RunOf(line, OperatorChars, o0)
      v0 == SkipBlanks(line, o0 + lo)
      lv == RunOf(line, NameChars, v0)
  IN IF ln > 0 /\ lo > 0 /\ lv > 0 /\ SkipBlanks(line, v0 + lv) = Len(line) + 1
     THEN [ok |-> TRUE, name |-> SubSeq(line, n0, n0 + ln - 1),
           version |-> SubSeq(line, v0, v0 + lv - 1)]
     ELSE [ok |-> FALSE, name |-> <<>>, version |-> <<>>]

\* C13: parseRequirementsTxt records, for a content of one line made of a
\* name, operators and a version with or without whitespace around them,
\* exactly name -> version; the content
\* "requestslib==2.0.0\n# comment\nflask" gives exactly requestslib -> 2.0.0
\* and flask -> latest; and no recorded name of any content contains an
\* operator or whitespace.
C13_NamesAndVersions ==
  (top = "parseRequirementsTxt" /\ pc = "settled" /\ fileContent.t = "string") =>
    /\ outcome = "returned"
    /\ \A k \in DOMAIN returned.dependencies :
         \A c \in DOMAIN returned.dependencies[k].name :
           returned.dependencies[k].name[c] \notin OperatorChars \cup Whitespace
    /\ NameOperatorVersion(fileContent.text).ok =>
         returned.dependencies =
           <<[name |-> NameOperatorVersion(fileContent.text).name,
              version |-> Str(NameOperatorVersion(fileContent.text).version)]>>
    /\ fileContent.text = ScenarioRequirements =>
         returned.dependencies =
           <<[name |-> <<"r", "e", "q", "u", "e", "s", "t", "s", "l", "i", "b">>,
              version |-> Str(<<"2", ".", "0", ".", "0">>)],
             [name |-> <<"f", "l", "a", "s", "k">>,
              version |-> Str(<<"l", "a", "t", "e", "s", "t">>)]>>


CommitTypes == {"feature", "bugfix", "docs", "refactor", "test", "merge", "other"}

\* the rules in their order: a rule matches a message that starts with one of
\* its prefixes or holds one of its words
ClassifierRules ==
  << [type |-> "feature", starts |-> {<<"f", "e", "a", "t">>},
      holds |-> {<<"f", "e", "a", "t", "u", "r", "e">>}],
     [type |-> "bugfix", starts |-> {<<"f", "i", "x">>}, holds |-> {<<"b", "u", "g">>}],
     [type |-> "docs", starts |-> {<<"d", "o", "c", "s">>},
      holds |-> {<<"d", "o", "c", "u", "m", "e", "n", "t", "a", "t", "i", "o", "n">>}],
     [type |-> "refactor", starts |-> {<<"r", "e", "f", "a", "c", "t", "o", "r">>},
      holds |-> {}],
     [type |-> "test", starts |-> {<<"t", "e", "s", "t">>}, holds |-> {}],
     [type |-> "merge", starts |-> {}, holds |-> {<<"m", "e", "r", "g", "e">>}] >>

RuleMatches(rule, msg) ==
  \/ \E prefix \in rule.starts : StartsWith(msg, prefix)
  \/ \E word \in rule.holds : Includes(msg, word)

FirstMatchingRule(msg) ==
  LET matching == {k \in DOMAIN ClassifierRules : RuleMatches(ClassifierRules[k], msg)}
  IN IF matching = {} THEN "other"
     ELSE ClassifierRules[CHOOSE k \in matching : \A j \in matching : k <= j].type

\* C14: formatCommits gives every commit exactly one type of feature, bugfix,
\* docs, refactor, test, merge, other; the type depends on the message alone
\* and is the one of the first rule, in the order feat/feature, fix/bug,
\* docs/documentation, refactor, test, merge, that matches the lower-cased
\* first line of the message, and other when none does; the message
\* "fix: null pointer in parser" gets bugfix.
C14_FirstMatchingRuleWins ==
  (top = "formatCommits" /\ pc = "settled") =>
    /\ outcome = "returned"
    /\ DOMAIN returned = DOMAIN commits
    /\ \A k \in DOMAIN commits :
         /\ returned[k].commitType \in CommitTypes
         /\ returned[k].commitType =
              FirstMatchingRule(ToLowerCase(FirstLine(commits[k].message)))
         /\ commits[k].message = ScenarioMessage => returned[k].commitType = "bugfix"
         /\ \A j \in DOMAIN commits :
              commits[j].message = commits[k].message
                => returned[j].commitType = returned[k].commitType

\* the scenario message was classified
C14_Witness ==
  /\ top = "formatCommits" /\ pc = "settled"
  /\ commits[1].message = ScenarioMessage
  /\ returned[1].commitType = "bugfix"


\* the options with only the named filter left as it is set
Only(opts, name) ==
  FilterOptions(IF name = "file" THEN opts.file ELSE <<>>,
                name = "conflicts" /\ opts.conflicts,
                IF name = "type" THEN opts.type ELSE <<>>)

\* the commits that filterCommits returns with only the named filter
KeptAlone(name) ==
  LET alone == filterCommits(commits, Only(options, name))
  IN {alone[k] : k \in DOMAIN alone}

InEveryFilter(commit) ==
  \A name \in {"file", "conflicts", "type"} : commit \in KeptAlone(name)

\* C15: for every commit list and every combination of the file, conflicts
\* and type options, filterCommits returns exactly the commits that each of
\* the set filters returns when it is applied alone to the same list, in the
\* order of the input list.
C15_FiltersIntersect ==
  (top = "filterCommits" /\ pc = "settled") =>
    /\ outcome = "returned"
    /\ returned = SelectSeq(commits, InEveryFilter)

\* all three filters are set, the result is not empty, and each filter alone
\* keeps a commit that the three together drop
C15_Witness ==
  /\ top = "filterCommits" /\ pc = "settled"
  /\ options.file # <<>> /\ options.conflicts /\ options.type # <<>>
  /\ returned # <<>>
  /\ \A name \in {"file", "conflicts", "type"} :
       \E commit \in KeptAlone(name) :
         \A k \in DOMAIN returned : returned[k] # commit


\* C16: calls of auditDependencies in one process share no mutable state: a
\* call that comes after another one behaves as it does alone; when it
\* reaches its confirmation step the question can be put to the user, it
\* never stays blocked, and it never fails because of what an earlier call
\* left behind.
C16_InvocationsAreIndependent ==
  top = "audit" =>
    /\ pc = "confirm" => ~rlClosed
    /\ pc # "hung"
    /\ error # ReadlineClosed


\* C17: for every repository identifier that validation accepts, the name of
\* the report file holds no "/": every "/" of the identifier is replaced by
\* "-", also when the identifier has more than one.
C17_FileNameHasNoSlash ==
  top = "audit" =>
    \A k \in DOMAIN report :
      /\ ValidRepo(report[k].repository)
      /\ ~Includes(report[k].path, <<"/">>)

\* the keys of a result of suggestAlternatives
ResultKeys == {dependencies[p].name : p \in DOMAIN returned}

\* C19: suggestAlternatives returns, for every dependency mapping, a mapping
\* whose keys are exactly the dependency names that are keys of the static
\* table (moment, lodash, jquery, express, request); a dependency of any
\* other name, "constructor" and "toString" included, is not in the result;
\* the call never throws.
C19_OnlyTableKeys ==
  (top = "suggestAlternatives" /\ pc = "settled") =>
    /\ outcome = "returned"
    /\ ResultKeys =
         {dependencies[p].name : p \in DOMAIN dependencies}
           \cap {moment, lodash, jquery, express, request}


\* C18: in every run of auditDependencies the report file is written at most
\* once, and after the write no step of the run, the update step included,
\* writes it again or changes the values it was built from.
C18_WrittenOnceThenFrozen ==
  /\ [](top = "audit" => Len(report) <= 1)
  /\ [][(top = "audit" /\ Len(report) = 1) =>
          /\ report' = report
          /\ repo' = repo
          /\ dependencies' = dependencies
          /\ latestVersions' = latestVersions
          /\ vulnerabilities' = vulnerabilities]_vars

\* the update step ran after the report was written
C18_Witness ==
  /\ top = "audit" /\ pc = "settled"
  /\ Len(report) = 1
  /\ updated = "applied"

\* the declared versions made of a range operator and X.Y.Z, and the latest
\* versions X.Y.Z, each with the numbers it is written from
RangeDeclarations ==
  {[text |-> Str(op \o ShowVersion(v)), version |-> v] :
     op \in RangeOperators, v \in Versions}
LatestDeclarations == {[text |-> Str(ShowVersion(v)), version |-> v] : v \in Versions}

\* X.Y.Z < X'.Y'.Z'
VersionLess(v, l) ==
  \/ v[1] < l[1]
  \/ v[1] = l[1] /\ v[2] < l[2]
  \/ v[1] = l[1] /\ v[2] = l[2] /\ v[3] < l[3]

\* C20: for a declared version made of a range operator (^, ~, >=, <, =) and
\* a version X.Y.Z, fetchLatestVersions compares X.Y.Z itself with the latest
\* version: outdated is true exactly when X.Y.Z is less than it; declared
\* ^4.18.2 with latest 4.18.2 gives outdated = false, and a package that is
\* not outdated is not among the outdated packages of the report.
C20_RangePrefixIsDiscarded ==
  top = "versions" =>
    \A p \in DOMAIN results :
      answer[p] = "ok" =>
        \A d \in RangeDeclarations :
          dependencies[p].version = d.text =>
            \A l \in LatestDeclarations :
              registry[dependencies[p].name] = l.text =>
                /\ results[p].outdated <=> VersionLess(d.version, l.version)
                /\ p \in DOMAIN OutdatedPackages(results)
                     <=> VersionLess(d.version, l.version)

\* the lookup of a package declared ^4.18.2 whose latest version is 4.18.2
\* has settled
C20_Witness ==
  /\ top = "versions" /\ pc = "settled"
  /\ Len(dependencies) = 1
  /\ dependencies[1].version = Str(<<"^", "4", ".", "1", "8", ".", "2">>)
  /\ registry[dependencies[1].name] = Str(<<"4", ".", "1", "8", ".", "2">>)
  /\ answer[1] = "ok"
  /\ ~results[1].outdated

----------------------------------------------------------------------------
(* C21: the file filter *)

\* some changed file's path contains the fragment, whatever the case of letters
PathContains(commit, fragment) ==
  \E k \in DOMAIN commit.details.files :
    Includes(ToLowerCase(commit.details.files[k]), ToLowerCase(fragment))

\* the commits of the list that the file filter has to keep
RECURSIVE DetailedAndTouching(_, _)
DetailedAndTouching(list, fragment) ==
  IF list = <<>> THEN <<>>
  ELSE (IF Head(list).details.present /\ PathContains(Head(list), fragment)
        THEN <<Head(list)>> ELSE <<>>)
         \o DetailedAndTouching(Tail(list), fragment)

FileFilterAlone ==
  /\ pc = "settled"
  /\ options.file # <<>> /\ ~options.conflicts /\ options.type = <<>>

\* C21: with the file option set (and no other filter), each filterCommits
\* returns exactly the commits whose detail was fetched and one of whose
\* changed paths contains the fragment, compared case-insensitively.
C21_FileFilterIgnoresCase ==
  (top \in {"filterCommits", "filterCommitsInsights"} /\ FileFilterAlone)
    => returned = DetailedAndTouching(commits, options.file)

\* the same statement for the filterCommits of commit-explorer alone
C21_HoldsInCommitExplorer ==
  (top = "filterCommits" /\ FileFilterAlone)
    => returned = DetailedAndTouching(commits, options.file)

----------------------------------------------------------------------------
(* C22: the conflicts filter *)

\* the lower-cased message contains one of the five keywords
SaysConflict(message) ==
  \E word \in {<<"c", "o", "n", "f", "l", "i", "c", "t">>, <<"r", "e", "s", "o", "l", "v", "e">>,
               <<"m", "e", "r", "g", "e">>, <<"f", "i", "x", " ", "m", "e", "r", "g", "e">>,
               <<"r", "e", "s", "o", "l", "v", "e", " ", "c", "o", "n", "f", "l", "i", "c", "t">>} :
    Includes(ToLowerCase(message), word)

\* the commits of the list that the conflicts filter has to keep
RECURSIVE DetailedAndConflicting(_)
DetailedAndConflicting(list) ==
  IF list = <<>> THEN <<>>
  ELSE (IF Head(list).details.present /\ SaysConflict(Head(list).message)
        THEN <<Head(list)>> ELSE <<>>)
         \o DetailedAndConflicting(Tail(list))

ConflictsFilterAlone ==
  /\ top \in {"filterCommits", "filterCommitsInsights"} /\ pc = "settled"
  /\ options.conflicts /\ options.file = <<>>
  /\ (top = "filterCommits" => options.type = <<>>)

\* C22: with the conflicts option set (and no other filter), filterCommits
\* returns exactly the commits whose detail was fetched and whose lower-cased
\* message contains one of the keywords; a commit without detail is dropped
\* even when its message contains a keyword.
C22_ConflictsFilterNeedsDetails ==
  ConflictsFilterAlone => returned = DetailedAndConflicting(commits)

\* a commit whose message says Merge but that has no details was dropped
\* while a commit with details was kept
C22_Witness ==
  /\ ConflictsFilterAlone /\ top = "filterCommits"
  /\ \E k \in DOMAIN commits :
       ~commits[k].details.present /\ SaysConflict(commits[k].message)
  /\ returned # <<>>
  /\ Len(returned) < Len(commits)

----------------------------------------------------------------------------
(* C23: which requests fetchCommits issues *)

\* a file filter, the conflicts filter or the statistics display is requested
EnrichmentRequested == options.file # <<>> \/ options.conflicts \/ options.showStats

FetchCommitsReturned ==
  top = "fetchCommits" /\ pc = "settled" /\ outcome = "returned"

\* C23: without a file filter, the conflicts filter and the statistics
\* display, fetchCommits issues the list request only and returns commits
\* without details; with one of them it issues, besides the list request,
\* exactly one detail request per listed commit.
C23_DetailRequestsOnlyWhenNeeded ==
  top = "fetchCommits" =>
    /\ ~EnrichmentRequested =>
          /\ requests <= 1
          /\ lookup = <<>>
          /\ FetchCommitsReturned =>
                /\ requests = 1
                /\ \A k \in DOMAIN returned : ~returned[k].details.present
    /\ EnrichmentRequested =>
          /\ requests \in {0, 1, 1 + Len(commits)}
          /\ FetchCommitsReturned =>
                /\ requests = 1 + Len(commits)
                /\ \A k \in DOMAIN commits : lookup[k] \in {"done", "failed"}

\* a call for the statistics display alone has returned three commits
\* after four requests
C23_Witness ==
  /\ FetchCommitsReturned
  /\ options.showStats /\ options.file = <<>> /\ ~options.conflicts
  /\ Len(commits) = 3
  /\ requests = 4

----------------------------------------------------------------------------
(* C24: a detail request that fails *)

\* C24: when fetchCommits has returned, every commit whose detail request
\* failed carries an error field.
C24_FailureIsRecorded ==
  FetchCommitsReturned =>
    \A k \in DOMAIN lookup : lookup[k] = "failed" => "error" \in DOMAIN returned[k]

\* what does hold: a failed detail request never makes fetchCommits throw,
\* and every commit whose request succeeded has its details
C24_FailureIsIsolated ==
  /\ (top = "fetchCommits" /\ outcome = "threw") => lookup = <<>>
  /\ FetchCommitsReturned =>
       \A k \in DOMAIN lookup : lookup[k] = "done" => returned[k] = commits[k]

----------------------------------------------------------------------------
(* C29: the detail requests run together *)

DetailsInFlight == Cardinality({k \in DOMAIN lookup : lookup[k] = "inflight"})

\* C29: no detail request is issued while the list request is pending, and
\* once the list has arrived the detail request of every listed commit has
\* been issued: none waits for another one to settle.
C29_DetailRequestsStartTogether ==
  top = "fetchCommits" =>
    /\ call.state = "listing" => (requests = 1 /\ lookup = <<>>)
    /\ call.state = "details" =>
          /\ \A k \in DOMAIN commits : lookup[k] # "pending"
          /\ requests = 1 + Len(commits)

\* more detail requests than the batch size are in flight at once
C29_Witness ==
  /\ top = "fetchCommits" /\ call.state = "details"
  /\ Len(commits) > batchSize
  /\ DetailsInFlight = Len(commits)

----------------------------------------------------------------------------
(* C25: the statistics of a commit list *)

RECURSIVE SumOf(_)
SumOf(numbers) == IF numbers = <<>> THEN 0 ELSE Head(numbers) + SumOf(Tail(numbers))

\* the commits of the list whose detail was fetched
Detailed(list) == {k \in DOMAIN list : list[k].details.present}

AdditionsOf(list) ==
  SumOf([k \in DOMAIN list |-> IF k \in Detailed(list) THEN list[k].details.stats.additions ELSE 0])

DeletionsOf(list) ==
  SumOf([k \in DOMAIN list |-> IF k \in Detailed(list) THEN list[k].details.stats.deletions ELSE 0])

FilesChangedOf(list) ==
  SumOf([k \in DOMAIN list |-> IF k \in Detailed(list) THEN Len(list[k].details.files) ELSE 0])

RECURSIVE CountsOf(_, _)
CountsOf(types, counts) ==
  IF types = {} THEN 0
  ELSE LET type == CHOOSE t \in types : TRUE IN
         (IF type \in DOMAIN counts THEN counts[type] ELSE 0)
           + CountsOf(types \ {type}, counts)

StatsReturned == top = "generateCommitStats" /\ pc = "settled"

\* the counts and sums of the statistics are those of the list
C25_CountsAndSums ==
  StatsReturned =>
    /\ returned.totalCommits = Len(commits)
    /\ returned.uniqueAuthors = Cardinality({AuthorShown(commits[k]) : k \in DOMAIN commits})
    /\ DOMAIN returned.commitTypes \subseteq CommitTypes
    /\ CountsOf(CommitTypes, returned.commitTypes) = returned.totalCommits
    /\ returned.totalAdditions = AdditionsOf(commits)
    /\ returned.totalDeletions = DeletionsOf(commits)
    /\ returned.totalFilesChanged = FilesChangedOf(commits)

\* C25: generateCommitStats returns the length of the list, the number of
\* distinct authors, per-type counts that sum to the length, the sums of
\* additions, deletions and changed files over the commits with details,
\* and a date range whose earliest date is not after, and whose latest date
\* is not before, the date of any commit of the list.
C25_StatsSummariseTheList ==
  /\ C25_CountsAndSums
  /\ (StatsReturned /\ commits # <<>>) =>
       /\ returned.dateRange.earliest.set /\ returned.dateRange.latest.set
       /\ \A k \in DOMAIN commits :
            /\ returned.dateRange.earliest.at <= commits[k].date
            /\ returned.dateRange.latest.at >= commits[k].date

----------------------------------------------------------------------------
(* C26: the error of a file that is on no attempted branch *)

\* the branches an error message of fetchFileFromRepo names
BranchesNamed(message) ==
  IF message = "File not found in main or master branch" THEN {"main", "master"}
  ELSE {}

\* the branches the call requested
BranchesTried == {fileLog[k].branch : k \in DOMAIN fileLog}

\* the call threw after every branch it requested answered 404
FileAbsent ==
  /\ top = "fetchFile" /\ pc = "settled" /\ outcome = "threw"
  /\ fileLog # <<>>
  /\ \A k \in DOMAIN fileLog : fileLog[k].status = "notFound"

\* C26: when the file is absent on every attempted branch and the requested
\* branch is not main, the error names exactly the branches that were tried:
\* the requested branch and master, or master alone.
C26_ErrorNamesTriedBranches ==
  (FileAbsent /\ options.branch # "main") => BranchesNamed(error) = BranchesTried

\* what does hold: the message is right for the default branch main
C26_RightForMain ==
  (FileAbsent /\ options.branch = "main") => BranchesNamed(error) = BranchesTried

----------------------------------------------------------------------------
(* C27: the update step *)

\* the update step has been entered: the question is pending or was answered
UpdateStepReached == pc = "confirm" \/ updated # "nothing"

SaidYes == ToLowerCase(userAnswer) \in {<<"y">>, <<"y", "e", "s">>}

C27_UpdateStepIsGuarded ==
  (top = "audit" /\ UpdateStepReached) =>
    /\ Len(report) = 1
    /\ options.autoUpdate
    /\ options.type = PackageJson
    /\ \E p \in DOMAIN latestVersions : latestVersions[p].outdated
    /\ updated = "applied" => SaidYes
    /\ updated = "cancelled" => ~SaidYes

C27_UpdateStepWritesNothing ==
  (top = "audit" /\ pc = "confirm") =>
    (report' = report /\ fileContent' = fileContent /\ dependencies' = dependencies)

\* C27: the update step of auditDependencies is reached only after the
\* report was written and only with autoUpdate set, a package.json manifest
\* and an outdated package; it announces the update as applied exactly when
\* the answer, lower-cased, is y or yes, and as cancelled otherwise; it
\* leaves the report and the manifest as they are.
C27_UpdateOnlyAfterYes ==
  [] C27_UpdateStepIsGuarded /\ [][C27_UpdateStepWritesNothing]_vars

\* the user typed YES and the update was announced as applied
C27_Witness ==
  /\ top = "audit" /\ pc = "settled"
  /\ updated = "applied"
  /\ userAnswer = <<"Y", "E", "S">>
  /\ Len(report) = 1

----------------------------------------------------------------------------
(* C28: only the dependencies section is audited *)

\* auditDependencies fetched a package.json that is an object
ManifestFetched ==
  /\ top = "audit" /\ options.type = PackageJson
  /\ fileContent.t = "object"
  /\ pc # "file"

\* the dependencies member of the fetched manifest
DeclaredDependencies ==
  IF "dependencies" \in fileContent.sections THEN fileContent.dependencies ELSE <<>>

\* the names of the devDependencies member of the fetched manifest
DevelopmentNames ==
  IF "devDependencies" \in fileContent.sections
  THEN {fileContent.devDependencies[k].name : k \in DOMAIN fileContent.devDependencies}
  ELSE {}

NamesOf(deps) == {deps[k].name : k \in DOMAIN deps}

\* C28: for a fetched package.json the audited dependencies are the
\* dependencies section and nothing else; when that section is empty, also
\* with development dependencies, the run issues no registry or advisory
\* request, writes no report, closes the readline interface and returns
\* without an error; no devDependencies entry is resolved or reported.
C28_OnlyDependenciesSection ==
  ManifestFetched =>
    /\ dependencies = DeclaredDependencies
    /\ DeclaredDependencies = <<>> =>
          /\ call.fn = "none"
          /\ lookup = <<>> /\ results = <<>> /\ latestVersions = <<>>
          /\ report = <<>>
          /\ rlClosed
          /\ pc \in {"settled", "exit"} /\ outcome = "returned" /\ error = "none"
    /\ \A p \in DOMAIN results : dependencies[p].name \notin DevelopmentNames
    /\ \A p \in DOMAIN latestVersions : dependencies[p].name \notin DevelopmentNames
    /\ \A k \in DOMAIN report :
          /\ report[k].dependencies = DeclaredDependencies
          /\ NamesOf(report[k].dependencies) \cap DevelopmentNames = {}
          /\ \A p \in DOMAIN report[k].outdatedPackages :
                dependencies[p].name \notin DevelopmentNames

\* a manifest with development dependencies only was fetched and the run
\* ended without a lookup and without a report
C28_Witness ==
  /\ ManifestFetched /\ pc = "settled"
  /\ DeclaredDependencies = <<>>
  /\ DevelopmentNames # {}
  /\ call.fn = "none" /\ report = <<>> /\ rlClosed /\ outcome = "returned"

----------------------------------------------------------------------------
(* C30: the type filter and the classifier *)

\* the commit type that goes with a type token
TypeOfToken(token) ==
  IF token = <<"f", "e", "a", "t">> THEN "feature"
  ELSE IF token = <<"f", "i", "x">> THEN "bugfix"
  ELSE IF token = <<"d", "o", "c", "s">> THEN "docs"
  ELSE IF token = <<"r", "e", "f", "a", "c", "t", "o", "r">> THEN "refactor"
  ELSE "test"

TypeFilterAlone ==
  /\ top = "filterCommits" /\ pc = "settled"
  /\ options.type \in TypeTokens
  /\ options.file = <<>> /\ ~options.conflicts

\* C30: every commit that filterCommits keeps for one of the tokens feat,
\* fix, docs, refactor and test is given the commit type of that token by
\* formatCommits.
C30_FilterAgreesWithClassifier ==
  TypeFilterAlone =>
    \A k \in DOMAIN returned :
      formatCommits(returned)[k].commitType = TypeOfToken(options.type)

\* what does hold: the commits kept for the token feat are features
C30_AgreesForFeat ==
  (TypeFilterAlone /\ options.type = <<"f", "e", "a", "t">>) =>
    \A k \in DOMAIN returned : formatCommits(returned)[k].commitType = "feature"

====
